---- MODULE Spec2Model ----
(***************************************************************************)
(* A model of the Yandex exchange scripts: the confirmations pipeline      *)
(* (confirmations.py), the orders export (orders.py), and the stock and    *)
(* price pipelines (stocks.py, prices.py).  Each part of the program has   *)
(* its own specification over the shared variables; the variables of the   *)
(* other parts stay at their initial values.                               *)
(***************************************************************************)
EXTENDS Integers, Sequences, FiniteSets, TLC

VARIABLES
    \* update_order_statuses and send_status_update_request (confirmations.py)
    df,             \* the merged table passed in
    max_retries,    \* argument
    retry_delay,    \* argument
    statusPc,       \* "start", "post" (about to POST attempt number attempt), "done"
    unique_df,      \* result of extract_unique_orders
    orders,         \* payload["orders"]
    ids_sent,       \* second result of build_order_payload
    attempt,        \* loop variable of send_status_update_request
    posts,          \* the payloads POSTed so far, in order
    sleeps,         \* the time.sleep durations so far, in order
    last,           \* the answer to the latest POST
    onlyTransient,  \* every answer so far carried a status of TransientStatuses
    success,        \* what send_status_update_request returned
    result,         \* what update_order_statuses returned
    \* process_confirmation_files (confirmations.py)
    inbox,          \* the files under source_dir (CONFIRMATION_DIR)
    archive,        \* the files of processed_dir (CONFIRMATION_PROCESSED)
    ingestPc,       \* "idle" between calls, "walk" inside the os.walk loop
    walk,           \* the files os.walk has still to yield
    all_dataframes, \* local list of the call in progress
    archivedNow,    \* names the call in progress has put into processed_dir
    returned,       \* the result of each finished call, in order
    archivedBy,     \* the names each finished call put into processed_dir
    \* export_orders_to_dbf_files and upload_file_to_ftp (orders.py)
    export_orders,  \* the orders argument
    exportPc,       \* "loop" inside the for loop, "done", "raised"
    cursor,         \* position of the loop in export_orders
    dbf_dir,        \* the .dbf files of output_dir
    skipped,        \* order ids reported as already exported (line 112)
    ftp_dir,        \* whether the remote orders directory exists
    ftp_orders,     \* the files stored in the remote orders directory
    \* prepare_batches (stocks.py, prices.py)
    offers,         \* the offers argument
    batch_size,     \* the batch_size argument
    batchPc,        \* "stock" or "price" before the call of that module's function, "done"
    batchKind,      \* which of the two functions was called
    batches,        \* the list returned
    \* poll_report_status (confirmations.py)
    poll_max_retries,   \* the max_retries argument
    poll_retry_delay,   \* the retry_delay argument
    pollPc,         \* "poll" inside the loop, "done"
    poll_attempt,   \* the loop variable attempt
    poll_answers,   \* the answers to the GETs issued, in order
    poll_sleeps,    \* the time.sleep durations, in order
    poll_result,    \* the value returned
    \* download_from_ftp (confirmations.py)
    division_id,    \* the division_id argument
    fetch_max_retries,  \* the max_retries argument
    remote,         \* the files of the remote confirmations directory
    fetchPc,        \* "connect" at the top of the while loop, "files" inside the for loop, "done"
    fetch_attempt,  \* the local variable attempt
    files,          \* the names ftp.nlst() returned
    remaining,      \* the names the for loop has still to visit
    connections,    \* number of ftplib.FTP(server) connections opened
    fetch_sleeps,   \* number of time.sleep(retry_delay) calls
    retrieved,      \* remote names a RETR was issued for, with the local name written
    deleted,        \* remote names deleted from the server
    retr_count,     \* the RETR commands issued for each remote name
    retr_failed,    \* remote names whose RETR failed
    \* prepare_offers_data (prices.py)
    df_products,    \* the products sheet, its text
    df_markups,     \* the markup sheet, its text
    has_columns,    \* both sheets have their required columns
    pricesPc,       \* "load" before the sheets are read, "rows" inside the for loop, "done", "raised"
    merged,         \* the local variable df after lines 46-56
    row_i,          \* the position of the for loop in df
    price_offers,   \* the local variable offers
    price_error,    \* the exception re-raised to the caller
    \* prepare_offers_data (stocks.py)
    stock_sheet,    \* the spreadsheet, its rows
    stock_has_columns, \* the sheet has its required columns
    stocksPc,       \* "load" before the sheet is read, "rows" inside the for loop, "done", "raised"
    stock_frame,    \* df_products after lines 39-40
    stock_i,        \* the position of the for loop
    stock_offers,   \* the local variable offers
    stock_error,    \* the exception re-raised to the caller
    \* send_request_with_retries (stocks.py, prices.py)
    send_kind,      \* which module's function is called, "stock" or "price"
    send_transport, \* "stub" for the FakeResponse of line 111, "live" for the request of line 110
    send_max_attempts, \* the max_attempts argument
    sendPc,         \* "send" at the top of the while loop, "done"
    send_attempt,   \* the local variable attempt
    send_requests,  \* number of HTTP requests issued
    send_answers,   \* the responses the loop has seen, in order
    send_waits,     \* the time.sleep durations, in order
    send_result,    \* the value returned
    \* download_from_ftp (utils.py)
    pull_max_retries, \* the max_retries argument
    supplier_file,  \* the local file at local_path: "absent", "old" (an earlier run's copy), "partial", "new"
    pullPc,         \* "connect" at the top of the while loop, "retr" inside the for loop, "done"
    pull_attempt,   \* the local variable attempt
    file_attempt,   \* the loop variable file_attempt
    pull_connections, \* number of ftplib.FTP(server) connections opened
    pull_retrs,     \* number of RETR commands issued
    pull_sleeps,    \* number of time.sleep(retry_delay) calls
    pull_outcome,   \* how the call ended: "downloaded", "missing", "transfer_failed", "no_connection"
    \* copy_file_with_timestamp (utils.py)
    copy_src,       \* what is at src_file: its kind ("missing", "dir", "file"), base name and chunks
    dest_dir,       \* whether dest_folder exists
    dest_files,     \* the files of dest_folder
    dest_before,    \* dest_dir and dest_files when the call began
    copy_clock,     \* what datetime.now() formats to
    copyPc,         \* "check", "mkdir", "open", "copy", "done", "raised"
    copy_pos,       \* chunks written so far
    copy_error,     \* the exception raised to the caller
    copy_result,    \* the path returned
    \* confirmations.py: main
    runPc,          \* the step main is at, "done" after the last, "raised" when an exception left it
    run_error,      \* the exception that left main, "" for none
    recap_saved,    \* whether save_orders_to_excel returned
    labels,         \* what generate_order_labels returned, "" before the call
    run_posts,      \* the status-update POSTs main's step 5 sent
    run_logged,     \* whether main logged that there is nothing to update
    run_update,     \* how step 5 ended: "" not reached, "sent", "failed", "nothing" (no POST)
    run_no,         \* the number of the invocation of main, from 1
    run_unsent,     \* the tables ingested by earlier invocations whose status update did not complete
    \* main.py: main
    exchPc,         \* the step main is at, "done" after the last, "raised" when an exception left it
    exch_steps,     \* the steps main has started, in order
    exch_error,     \* the exception that left main, "none" for none
    \* confirmations.py: save_orders_to_excel and format_report_sheets
    recap_df,       \* the merged table, a row per confirmation line
    work_book,      \* the sheets of the recap workbook, in order
    recapPc,        \* "save" before save_orders_to_excel, "format" before format_report_sheets, "done"
    \* stocks.py, prices.py: update_stocks and update_prices
    upd_kind,       \* "stock" for update_stocks, "price" for update_prices
    upd_offers,     \* the offers passed in
    upd_size,       \* batch_size of prepare_batches
    upd_batches,    \* the batches prepare_batches returned
    upd_idx,        \* idx of the for loop
    upd_sent,       \* the bodies passed to send_request_with_retries, in order
    upd_responses,  \* the list responses
    upd_pauses,     \* the time.sleep(1) calls made
    updPc,          \* "wait" before the call, "call", "loop", "done"
    \* orders.py: get_orders and main
    page_token,     \* params["page_token"], "" while not set
    get_log,        \* the answers to the GETs of get_orders, in order
    all_orders,     \* the list get_orders accumulates
    get_result,     \* what get_orders returned
    data_orders,    \* what extract_order_data returned
    export_calls,   \* the order lists export_orders_to_dbf_files was called with
    ord_error,      \* the exception that left main, "none" for none
    ordPc,          \* "get" inside get_orders, then "extract", "export", "done" or "raised"
    \* orders.py: upload_file_to_ftp, command by command
    upl_cmds,       \* the FTP commands sent so far, each with its outcome
    upl_logged,     \* the login succeeded
    upl_cwd,        \* the current directory of the session
    upl_pending,    \* the exception travelling out of the with block, "none" for none
    upl_raised,     \* the exception that reached the caller, "none" for none
    upl_local,      \* the local file can be opened
    uplPc,          \* the command upload_file_to_ftp is about to send, "returned" or "raised" after it
    \* the paginated fetches of orders.py and products.py, page after page
    pag_fetch,      \* the function that runs
    pag_token,      \* params["page_token"], "" while not set
    pag_seen,       \* the nextPageToken values the server has returned
    pag_end,        \* why the loop was left, "none" while it runs
    pagPc,          \* "request" inside the while loop, "returned" after it
    \* download_file (confirmations.py)
    dl_retries,     \* the download_retries argument
    dl_attempt,     \* the loop variable attempt, 0 before the loop
    dl_gets,        \* the outcomes of the GETs issued, in order
    dl_sleeps,      \* the time.sleep durations, in order
    dl_file,        \* the label file on disk: "absent", "partial" or "complete"
    dl_result,      \* the value returned: "" before the return, the path or "None"
    dl_error,       \* the exception that left download_file, "none" for none
    dlPc,           \* "makedirs", "get", "returned" or "raised"
    \* two runs of process_confirmation_files on one inbox
    c_mode,         \* "sequential": run 2 is called after run 1 returned; "concurrent": no order
    c_inbox,        \* the files of source_dir
    c_archive,      \* the files of processed_dir
    c_pc,           \* per run: "start", "walk" between files, "move" before shutil.move, "done"
    c_walk,         \* per run: the files os.walk listed and the loop has not visited
    c_cur,          \* per run: the file loaded and not yet moved
    c_dfs,          \* per run: all_dataframes
    c_loaded,       \* per run: the names of the files whose rows the run has loaded
    c_returned,     \* per run: the value returned, <<>> before
    \* orders.py: successive runs of export_orders_to_dbf_files
    export_run      \* the number of the run, from 1

\* the variables of each part, and for each part those of all the others
fetchVars ==
    <<division_id, fetch_max_retries, remote, fetchPc, fetch_attempt, files, remaining,
      connections, fetch_sleeps, retrieved, deleted, retr_count, retr_failed>>

pricesVars ==
    <<df_products, df_markups, has_columns, pricesPc, merged, row_i, price_offers,
      price_error>>

stocksVars ==
    <<stock_sheet, stock_has_columns, stocksPc, stock_frame, stock_i, stock_offers,
      stock_error>>

sendVars ==
    <<send_kind, send_transport, send_max_attempts, sendPc, send_attempt,
      send_requests, send_answers, send_waits, send_result>>

pullVars ==
    <<pull_max_retries, supplier_file, pullPc, pull_attempt, file_attempt,
      pull_connections, pull_retrs, pull_sleeps, pull_outcome>>

copyVars ==
    <<copy_src, dest_dir, dest_files, dest_before, copy_clock, copyPc, copy_pos,
      copy_error, copy_result>>

runsVars == <<run_no, run_unsent>>

runVars ==
    <<runPc, run_error, recap_saved, labels, run_posts, run_logged, run_update, runsVars>>

exchVars ==
    <<exchPc, exch_steps, exch_error>>

recapVars ==
    <<recap_df, work_book, recapPc>>

updVars ==
    <<upd_kind, upd_offers, upd_size, upd_batches, upd_idx, upd_sent, upd_responses,
      upd_pauses, updPc>>

ordsVars ==
    <<page_token, get_log, all_orders, get_result, data_orders, export_calls,
      ord_error, ordPc>>

uplVars ==
    <<upl_cmds, upl_logged, upl_cwd, upl_pending, upl_raised, upl_local, uplPc>>

pagVars ==
    <<pag_fetch, pag_token, pag_seen, pag_end, pagPc>>

dlVars ==
    <<dl_retries, dl_attempt, dl_gets, dl_sleeps, dl_file, dl_result, dl_error, dlPc>>

concVars ==
    <<c_mode, c_inbox, c_archive, c_pc, c_walk, c_cur, c_dfs, c_loaded, c_returned>>

rexVars ==
    <<export_run>>

statusVars ==
    <<df, max_retries, retry_delay, statusPc, unique_df, orders, ids_sent,
      attempt, posts, sleeps, last, onlyTransient, success, result>>

\* process_confirmation_files, but for the inbox that download_from_ftp fills
ingestRunVars ==
    <<archive, ingestPc, walk, all_dataframes, archivedNow, returned, archivedBy>>

ingestVars == <<inbox, ingestRunVars>>

exportVars == <<export_orders, exportPc, cursor, dbf_dir, skipped, ftp_dir, ftp_orders>>

batchVars == <<offers, batch_size, batchPc, batchKind, batches>>

pollVars ==
    <<poll_max_retries, poll_retry_delay, pollPc, poll_attempt, poll_answers,
      poll_sleeps, poll_result>>

vars ==
    <<statusVars, ingestVars, exportVars, batchVars, pollVars, fetchVars,
      pricesVars, stocksVars, sendVars, pullVars, copyVars, runVars, exchVars,
      recapVars, updVars, ordsVars, uplVars, pagVars, dlVars, concVars, rexVars>>

notStatus ==
    <<ingestVars, exportVars, batchVars, pollVars, fetchVars, pricesVars,
      stocksVars, sendVars, pullVars, copyVars, runVars, exchVars, recapVars,
      updVars, ordsVars, uplVars, pagVars, dlVars, concVars, rexVars>>
notIngest ==
    <<statusVars, exportVars, batchVars, pollVars, fetchVars, pricesVars,
      stocksVars, sendVars, pullVars, copyVars, runVars, exchVars, recapVars,
      updVars, ordsVars, uplVars, pagVars, dlVars, concVars, rexVars>>
notExport ==
    <<statusVars, ingestVars, batchVars, pollVars, fetchVars, pricesVars,
      stocksVars, sendVars, pullVars, copyVars, runVars, exchVars, recapVars,
      updVars, ordsVars, uplVars, pagVars, dlVars, concVars, rexVars>>
notBatch ==
    <<statusVars, ingestVars, exportVars, pollVars, fetchVars, pricesVars,
      stocksVars, sendVars, pullVars, copyVars, runVars, exchVars, recapVars,
      updVars, ordsVars, uplVars, pagVars, dlVars, concVars, rexVars>>
notPoll ==
    <<statusVars, ingestVars, exportVars, batchVars, fetchVars, pricesVars,
      stocksVars, sendVars, pullVars, copyVars, runVars, exchVars, recapVars,
      updVars, ordsVars, uplVars, pagVars, dlVars, concVars, rexVars>>
notPrices ==
    <<statusVars, ingestVars, exportVars, batchVars, pollVars, fetchVars,
      stocksVars, sendVars, pullVars, copyVars, runVars, exchVars, recapVars,
      updVars, ordsVars, uplVars, pagVars, dlVars, concVars, rexVars>>
notStocks ==
    <<statusVars, ingestVars, exportVars, batchVars, pollVars, fetchVars,
      pricesVars, sendVars, pullVars, copyVars, runVars, exchVars, recapVars,
      updVars, ordsVars, uplVars, pagVars, dlVars, concVars, rexVars>>
notSend ==
    <<statusVars, ingestVars, exportVars, batchVars, pollVars, fetchVars,
      pricesVars, stocksVars, pullVars, copyVars, runVars, exchVars, recapVars,
      updVars, ordsVars, uplVars, pagVars, dlVars, concVars, rexVars>>
notPull ==
    <<statusVars, ingestVars, exportVars, batchVars, pollVars, fetchVars,
      pricesVars, stocksVars, sendVars, copyVars, runVars, exchVars, recapVars,
      updVars, ordsVars, uplVars, pagVars, dlVars, concVars, rexVars>>
notCopy ==
    <<statusVars, ingestVars, exportVars, batchVars, pollVars, fetchVars,
      pricesVars, stocksVars, sendVars, pullVars, runVars, exchVars, recapVars,
      updVars, ordsVars, uplVars, pagVars, dlVars, concVars, rexVars>>
notRun ==
    <<statusVars, ingestVars, exportVars, batchVars, pollVars, fetchVars,
      pricesVars, stocksVars, sendVars, pullVars, copyVars, exchVars, recapVars,
      updVars, ordsVars, uplVars, pagVars, dlVars, concVars, rexVars>>
notExch ==
    <<statusVars, ingestVars, exportVars, batchVars, pollVars, fetchVars,
      pricesVars, stocksVars, sendVars, pullVars, copyVars, runVars, recapVars,
      updVars, ordsVars, uplVars, pagVars, dlVars, concVars, rexVars>>
notRecap ==
    <<statusVars, ingestVars, exportVars, batchVars, pollVars, fetchVars,
      pricesVars, stocksVars, sendVars, pullVars, copyVars, runVars, exchVars,
      updVars, ordsVars, uplVars, pagVars, dlVars, concVars, rexVars>>
notUpd ==
    <<statusVars, ingestVars, exportVars, batchVars, pollVars, fetchVars,
      pricesVars, stocksVars, sendVars, pullVars, copyVars, runVars, exchVars,
      recapVars, ordsVars, uplVars, pagVars, dlVars, concVars, rexVars>>
notOrds ==
    <<statusVars, ingestVars, exportVars, batchVars, pollVars, fetchVars,
      pricesVars, stocksVars, sendVars, pullVars, copyVars, runVars, exchVars,
      recapVars, updVars, uplVars, pagVars, dlVars, concVars, rexVars>>
notUpl ==
    <<statusVars, ingestVars, exportVars, batchVars, pollVars, fetchVars,
      pricesVars, stocksVars, sendVars, pullVars, copyVars, runVars, exchVars,
      recapVars, updVars, ordsVars, pagVars, dlVars, concVars, rexVars>>
notPag ==
    <<statusVars, ingestVars, exportVars, batchVars, pollVars, fetchVars,
      pricesVars, stocksVars, sendVars, pullVars, copyVars, runVars, exchVars,
      recapVars, updVars, ordsVars, uplVars, dlVars, concVars, rexVars>>
notDl ==
    <<statusVars, ingestVars, exportVars, batchVars, pollVars, fetchVars,
      pricesVars, stocksVars, sendVars, pullVars, copyVars, runVars, exchVars,
      recapVars, updVars, ordsVars, uplVars, pagVars, concVars, rexVars>>
notConc ==
    <<statusVars, ingestVars, exportVars, batchVars, pollVars, fetchVars,
      pricesVars, stocksVars, sendVars, pullVars, copyVars, runVars, exchVars,
      recapVars, updVars, ordsVars, uplVars, pagVars, dlVars, rexVars>>
notRex ==
    <<statusVars, ingestVars, exportVars, batchVars, pollVars, fetchVars,
      pricesVars, stocksVars, sendVars, pullVars, copyVars, runVars, exchVars,
      recapVars, updVars, ordsVars, uplVars, pagVars, dlVars, concVars>>
notFetch ==
    <<statusVars, ingestRunVars, exportVars, batchVars, pollVars, pricesVars,
      stocksVars, sendVars, pullVars, copyVars, runVars, exchVars, recapVars,
      updVars, ordsVars, uplVars, pagVars, dlVars, concVars, rexVars>>

(***************************************************************************)
(* Bounds of the model.                                                    *)
(***************************************************************************)
\* rows of a merged table handed to update_order_statuses
MaxKeys == 2
\* largest max_retries argument tried
MaxRetries == 3
\* rows of a table handed to extract_unique_orders alone
MaxRows == 3
\* consecutive calls of process_confirmation_files
MaxRuns == 2
\* orders handed to export_orders_to_dbf_files
MaxOrders == 2
\* rows of the stock sheet
MaxStockRows == 2
\* rows of the products sheet and of the markup sheet
MaxProducts == 2
MaxMarkups == 3
\* offers handed to prepare_batches, and the largest batch_size tried
MaxOffers == 5
MaxBatch == 3
\* GETs of one get_orders call
MaxPages == 3

(***************************************************************************)
(* Generic helpers.                                                        *)
(***************************************************************************)
Range(s) == {s[i] : i \in 1..Len(s)}

SeqsUpTo(S, n) == UNION {[1..k -> S] : k \in 0..n}

\* str.endswith
EndsWith(s, suffix) ==
    /\ Len(s) >= Len(suffix)
    /\ SubSeq(s, Len(s) - Len(suffix) + 1, Len(s)) = suffix

\* the text ".xls"
DotXls == <<".", "x", "l", "s">>

\* c in s
Contains(s, c) == \E i \in 1..Len(s) : s[i] = c

\* the position of the last c in s (s contains c)
LastIndex(s, c) == CHOOSE i \in 1..Len(s) : s[i] = c /\ \A j \in (i + 1)..Len(s) : s[j] # c

\* s.rsplit(c, 1)[0] and s.rsplit(c, 1)[-1]; without c in s both are s
RSplitHead(s, c) == IF Contains(s, c) THEN SubSeq(s, 1, LastIndex(s, c) - 1) ELSE s
RSplitTail(s, c) == IF Contains(s, c) THEN SubSeq(s, LastIndex(s, c) + 1, Len(s)) ELSE s

\* s.replace(pat, ''): every occurrence of pat removed, scanning from the left
RECURSIVE RemoveAll(_, _)
RemoveAll(s, pat) ==
    IF Len(s) < Len(pat) THEN s
    ELSE IF SubSeq(s, 1, Len(pat)) = pat
         THEN RemoveAll(SubSeq(s, Len(pat) + 1, Len(s)), pat)
         ELSE <<Head(s)>> \o RemoveAll(Tail(s), pat)

\* Python's range(n) as the index labels of a table: 0, 1, ..., n-1
RangeIndex(n) == [i \in 1..n |-> i - 1]

(***************************************************************************)
(* Cell values of the HDRTAG2 column as pandas holds them after            *)
(* read_excel and fillna: a number (kept in tenths, so that 1 and 1.0 are  *)
(* the same cell and 1.5 is another), a text (a sequence of characters),   *)
(* or NaN (a cell of a column that one of the concatenated files lacks).   *)
(***************************************************************************)
Num(t) == [t |-> "num", tenths |-> t, s |-> <<>>]
Str(cs) == [t |-> "str", tenths |-> 0, s |-> cs]
NaN == [t |-> "nan", tenths |-> 0, s |-> <<>>]

Digits == {"0", "1", "2", "3", "4", "5", "6", "7", "8", "9"}

DigitVal(c) ==
    CASE c = "0" -> 0 [] c = "1" -> 1 [] c = "2" -> 2 [] c = "3" -> 3
      [] c = "4" -> 4 [] c = "5" -> 5 [] c = "6" -> 6 [] c = "7" -> 7
      [] c = "8" -> 8 [] c = "9" -> 9

\* str.strip() of the whitespace that int() ignores
RECURSIVE LStrip(_)
LStrip(cs) == IF cs # <<>> /\ Head(cs) = " " THEN LStrip(Tail(cs)) ELSE cs

RECURSIVE RStrip(_)
RStrip(cs) ==
    IF cs # <<>> /\ cs[Len(cs)] = " " THEN RStrip(SubSeq(cs, 1, Len(cs) - 1)) ELSE cs

RECURSIVE DigitsValue(_, _)
DigitsValue(cs, acc) ==
    IF cs = <<>> THEN acc ELSE DigitsValue(Tail(cs), 10 * acc + DigitVal(Head(cs)))

\* the result of a conversion that can raise
Ok(v) == [ok |-> TRUE, v |-> v]
Raised == [ok |-> FALSE, v |-> 0]

\* int(text): surrounding whitespace ignored, an optional sign, then digits only
IntOfStr(cs) ==
    LET body == RStrip(LStrip(cs))
        signed == body # <<>> /\ Head(body) \in {"-", "+"}
        ds == IF signed THEN Tail(body) ELSE body
    IN  IF ds = <<>> \/ \E i \in 1..Len(ds) : ds[i] \notin Digits
        THEN Raised
        ELSE IF signed /\ Head(body) = "-"
             THEN Ok(0 - DigitsValue(ds, 0))
             ELSE Ok(DigitsValue(ds, 0))

\* int(number): truncation towards zero
IntOfNum(t) == IF t >= 0 THEN t \div 10 ELSE 0 - ((0 - t) \div 10)

\* a JSON null, None in Python
Null == [t |-> "null", tenths |-> 0, s |-> <<>>]

\* int(x): of a number, of a text, of NaN (ValueError), of None (TypeError)
PyInt(cell) ==
    CASE cell.t = "num" -> Ok(IntOfNum(cell.tenths))
      [] cell.t = "str" -> IntOfStr(cell.s)
      [] cell.t = "nan" -> Raised
      [] cell.t = "null" -> Raised

\* the HDRTAG2 cells the model draws tables from: the order number 1 as a
\* number and as a text, with and without a leading blank, the fractional
\* number 1.5, another order number, the fillna sentinel, and NaN
RawKeys ==
    { Num(10), Num(15), Num(20), Str(<<"1">>), Str(<<" ", "1">>),
      Str(<<"x">>), NaN }

(***************************************************************************)
(* A table (DataFrame): its column names, its index labels and the cells   *)
(* of its HDRTAG2 column (empty when the table has no such column).        *)
(***************************************************************************)
DataFrame(keys) ==
    [columns |-> {"HDRTAG2", "QNT"}, index |-> RangeIndex(Len(keys)), HDRTAG2 |-> keys]

NoKeyFrame(n) ==
    [columns |-> {"QNT"}, index |-> RangeIndex(n), HDRTAG2 |-> <<>>]

\* the value None, and a Python list, as results of one shape
NoneVal == [none |-> TRUE, ids |-> <<>>]
ListVal(s) == [none |-> FALSE, ids |-> s]

(***************************************************************************)
(* confirmations.py: validation, deduplication, payload.                   *)
(***************************************************************************)
validate_dataframe(d) == "HDRTAG2" \in d.columns

\* drop_duplicates keeping the last row of each key instead of the first
RECURSIVE KeptPositionsLast(_, _, _)
KeptPositionsLast(keys, i, kept) ==
    IF i > Len(keys) THEN kept
    ELSE IF \E j \in (i + 1)..Len(keys) : keys[j] = keys[i]
         THEN KeptPositionsLast(keys, i + 1, kept)
         ELSE KeptPositionsLast(keys, i + 1, Append(kept, i))

\* DataFrame.drop_duplicates(subset=["HDRTAG2"]), keep="first": the positions
\* kept, scanning the rows in order and keeping a row when no kept row before
\* it holds an equal cell
RECURSIVE KeptPositions(_, _, _)
KeptPositions(keys, i, kept) ==
    IF i > Len(keys) THEN kept
    ELSE IF \E j \in Range(kept) : keys[j] = keys[i]
         THEN KeptPositions(keys, i + 1, kept)
         ELSE KeptPositions(keys, i + 1, Append(kept, i))

drop_duplicates(d) ==
    LET kept == KeptPositions(d.HDRTAG2, 1, <<>>)
    IN  [columns |-> d.columns,
         index |-> [k \in 1..Len(kept) |-> d.index[kept[k]]],
         HDRTAG2 |-> [k \in 1..Len(kept) |-> d.HDRTAG2[kept[k]]]]

\* a table, or None when drop_duplicates raised (no HDRTAG2 column)
extract_unique_orders(d) ==
    IF "HDRTAG2" \in d.columns
    THEN [none |-> FALSE, frame |-> drop_duplicates(d)]
    ELSE [none |-> TRUE, frame |-> d]

\* the ids of build_order_payload: the rows whose key converts, in row order
RECURSIVE BuildIds(_)
BuildIds(keys) ==
    IF keys = <<>> THEN <<>>
    ELSE LET c == PyInt(Head(keys))
         IN  IF c.ok THEN <<c.v>> \o BuildIds(Tail(keys)) ELSE BuildIds(Tail(keys))

build_order_payload(d, new_status, new_substatus) ==
    LET ids == BuildIds(d.HDRTAG2)
    IN  [orders |-> [k \in 1..Len(ids) |->
                        [id |-> ids[k], status |-> new_status, substatus |-> new_substatus]],
         ids_sent |-> ids]

(***************************************************************************)
(* confirmations.py: send_status_update_request and update_order_statuses. *)
(***************************************************************************)
\* what requests.post can do: answer with a status code, raise a
\* requests.exceptions.RequestException, or raise another exception
Answer(code) == [exc |-> "none", status_code |-> code]
RequestException == [exc |-> "RequestException", status_code |-> 0]
OtherException == [exc |-> "Exception", status_code |-> 0]
NoAnswer == [exc |-> "nothing", status_code |-> 0]

StatusCodes == {200, 400, 404, 429, 500, 502, 503, 504}
Responses == {Answer(c) : c \in StatusCodes} \cup {RequestException, OtherException}

\* the tuple of line 180
RetryStatuses == {429, 500, 502, 503, 504}

\* the statuses a server answers with while it is temporarily unavailable
TransientStatuses == {429, 500, 502, 503, 504}

\* the return values of send_status_update_request
SentTrue == "True"
SentFalse == "False"
SentNone == "None"

RetryDelays == {3, 5}

StatusFrames ==
    {DataFrame(k) : k \in SeqsUpTo(RawKeys, MaxKeys)} \cup {NoKeyFrame(n) : n \in 0..MaxKeys}

\* the state before a call: the arguments chosen, nothing done yet
StatusStart(frames, retries, delays, pc0) ==
    /\ df \in frames
    /\ max_retries \in retries
    /\ retry_delay \in delays
    /\ statusPc = pc0
    /\ unique_df = NoKeyFrame(0)
    /\ orders = <<>>
    /\ ids_sent = <<>>
    /\ attempt = 0
    /\ posts = <<>>
    /\ sleeps = <<>>
    /\ last = NoAnswer
    /\ onlyTransient = TRUE
    /\ success = SentNone
    /\ result = NoneVal

StatusInit == StatusStart(StatusFrames, 0..MaxRetries, RetryDelays, "start")

\* the status update is not part of the run
StatusIdle == StatusStart({NoKeyFrame(0)}, {0}, {0}, "idle")

\* update_order_statuses with neither gate: the payload is built from whatever
\* table came in (a row without the key raises inside build_order_payload and
\* is skipped there)
UpdateOrderStatusesUngated ==
    /\ statusPc = "start"
    /\ UNCHANGED notStatus
    /\ UNCHANGED <<df, max_retries, retry_delay, posts, sleeps, last, onlyTransient, success>>
    /\ LET u == IF "HDRTAG2" \in df.columns THEN drop_duplicates(df) ELSE df
           p == build_order_payload(u, "PROCESSING", "READY_TO_SHIP")
       IN  /\ unique_df' = u
           /\ orders' = p.orders
           /\ ids_sent' = p.ids_sent
           /\ IF p.orders = <<>>
              THEN /\ statusPc' = "done"
                   /\ result' = ListVal(<<>>)
                   /\ UNCHANGED attempt
              ELSE IF max_retries < 1
                   THEN /\ statusPc' = "done"
                        /\ result' = NoneVal
                        /\ UNCHANGED attempt
                   ELSE /\ statusPc' = "post"
                        /\ attempt' = 1
                        /\ UNCHANGED result

\* update_order_statuses up to the call of send_status_update_request
UpdateOrderStatuses ==
    /\ statusPc = "start"
    /\ UNCHANGED notStatus
    /\ UNCHANGED <<df, max_retries, retry_delay, posts, sleeps, last, onlyTransient, success>>
    /\ IF ~validate_dataframe(df)
       THEN /\ statusPc' = "done"
            /\ result' = NoneVal
            /\ UNCHANGED <<unique_df, orders, ids_sent, attempt>>
       ELSE LET u == extract_unique_orders(df)
                p == build_order_payload(u.frame, "PROCESSING", "READY_TO_SHIP")
            IN  IF u.none
                THEN /\ statusPc' = "done"
                     /\ result' = NoneVal
                     /\ UNCHANGED <<unique_df, orders, ids_sent, attempt>>
                ELSE /\ unique_df' = u.frame
                     /\ orders' = p.orders
                     /\ ids_sent' = p.ids_sent
                     /\ IF p.orders = <<>>
                        THEN /\ statusPc' = "done"
                             /\ result' = ListVal(<<>>)
                             /\ UNCHANGED attempt
                        ELSE IF max_retries < 1
                             \* range(1, max_retries + 1) is empty: the send
                             \* falls off its loop and returns None
                             THEN /\ statusPc' = "done"
                                  /\ result' = NoneVal
                                  /\ UNCHANGED attempt
                             ELSE /\ statusPc' = "post"
                                  /\ attempt' = 1
                                  /\ UNCHANGED result

\* a return that hands back the ids whatever the send answered
ReturnIdsAlways(ok) ==
    /\ statusPc' = "done"
    /\ success' = ok
    /\ result' = ListVal(ids_sent)
    /\ UNCHANGED <<attempt, sleeps>>

\* the return of send_status_update_request and line 224
Return(ok) ==
    /\ statusPc' = "done"
    /\ success' = ok
    /\ result' = IF ok = SentTrue THEN ListVal(ids_sent) ELSE NoneVal
    /\ UNCHANGED <<attempt, sleeps>>

\* the same branch waiting retry_delay each time, without the backoff
RetryOrFailFlat ==
    IF attempt < max_retries
    THEN /\ sleeps' = Append(sleeps, retry_delay)
         /\ attempt' = attempt + 1
         /\ UNCHANGED <<statusPc, success, result>>
    ELSE Return(SentFalse)

\* the same branch with a retry that does not use up an attempt
RetryOrFailUncounted ==
    IF attempt < max_retries
    THEN /\ sleeps' = Append(sleeps, retry_delay * attempt)
         /\ UNCHANGED <<attempt, statusPc, success, result>>
    ELSE Return(SentFalse)

\* the branch of lines 182-187 and 194-199
RetryOrFail ==
    IF attempt < max_retries
    THEN /\ sleeps' = Append(sleeps, retry_delay * attempt)
         /\ attempt' = attempt + 1
         /\ UNCHANGED <<statusPc, success, result>>
    ELSE Return(SentFalse)

\* one iteration of the loop of send_status_update_request
SendAttempt(r) ==
    /\ statusPc = "post"
    /\ UNCHANGED notStatus
    /\ posts' = Append(posts, orders)
    /\ last' = r
    /\ onlyTransient' = (onlyTransient /\ r.exc = "none" /\ r.status_code \in TransientStatuses)
    /\ UNCHANGED <<df, max_retries, retry_delay, unique_df, orders, ids_sent>>
    /\ CASE r.exc = "RequestException" -> RetryOrFail
         [] r.exc = "Exception" -> Return(SentFalse)
         [] r.exc = "none" /\ r.status_code = 200 -> Return(SentTrue)
         [] r.exc = "none" /\ r.status_code \in RetryStatuses -> RetryOrFail
         [] OTHER -> Return(SentFalse)

StatusNext ==
    \/ UpdateOrderStatuses
    \/ \E r \in Responses : SendAttempt(r)

(***************************************************************************)
(* extract_unique_orders called on its own.                                *)
(***************************************************************************)
DedupFrames ==
    {DataFrame(k) : k \in SeqsUpTo(RawKeys, MaxRows)} \cup {NoKeyFrame(n) : n \in 0..MaxRows}

DedupInit == StatusStart(DedupFrames, {0}, {0}, "extract")

\* the call: the table returned, or None; result lists the index labels kept
ExtractUniqueOrders ==
    /\ statusPc = "extract"
    /\ UNCHANGED notStatus
    /\ LET u == extract_unique_orders(df)
       IN  /\ unique_df' = u.frame
           /\ result' = IF u.none THEN NoneVal ELSE ListVal(u.frame.index)
    /\ statusPc' = "done"
    /\ UNCHANGED <<df, max_retries, retry_delay, orders, ids_sent, attempt, posts,
                   sleeps, last, onlyTransient, success>>

DedupNext == ExtractUniqueOrders

(***************************************************************************)
(* confirmations.py: append_data_from_file and process_confirmation_files. *)
(* A file is its directory under source_dir ("" for source_dir itself),    *)
(* its name and its content; a content is a sheet of rows that read_excel  *)
(* can load, or something it cannot.                                       *)
(***************************************************************************)
Sheet(rows) == [readable |-> TRUE, rows |-> rows]
Corrupt == [readable |-> FALSE, rows |-> <<>>]

File(dir, name, data) == [dir |-> dir, name |-> name, data |-> data]
Archived(f) == [name |-> f.name, data |-> f.data]

\* append_data_from_file(filepath) with df=None: the table read, or None
\* (the df passed in) when reading raised
append_data_from_file(f) ==
    IF f.data.readable
    THEN [none |-> FALSE, rows |-> f.data.rows]
    ELSE [none |-> TRUE, rows |-> <<>>]

\* the rows of the tables of a list, None entries dropped
RECURSIVE ConcatRows(_)
ConcatRows(dfs) ==
    IF dfs = <<>> THEN <<>>
    ELSE (IF Head(dfs).none THEN <<>> ELSE Head(dfs).rows) \o ConcatRows(Tail(dfs))

\* a table returned, or an exception leaving the call
Table(rows) == [raised |-> FALSE, rows |-> rows]
ValueError == [raised |-> TRUE, rows |-> <<>>]

\* lines 256-260: pd.concat drops the None entries and raises ValueError
\* when every entry is None; an empty list gives pd.DataFrame()
ReturnOfRun(dfs) ==
    IF dfs # <<>>
    THEN IF \A k \in 1..Len(dfs) : dfs[k].none THEN ValueError ELSE Table(ConcatRows(dfs))
    ELSE Table(<<>>)

\* what shutil.move can do: move the file, fail before anything is written,
\* or (across file systems) copy it and fail to remove the source
MoveOutcomes == {"moved", "failed", "copied"}

\* the files the model draws the inbox from
InboxCandidates ==
    { File("", <<"1">> \o DotXls, Sheet(<<11>>)),
      File("", <<"2">> \o DotXls, Corrupt),
      File("", <<"3">> \o DotXls, Sheet(<<>>)),
      File("", <<"4", ".", "t", "x", "t">>, Sheet(<<14>>)),
      File("sub", <<"1">> \o DotXls, Sheet(<<15>>)) }

ArchiveCandidates == { [name |-> <<"1">> \o DotXls, data |-> Sheet(<<10>>)] }

IngestStart(inboxes, archives) ==
    /\ inbox \in inboxes
    /\ archive \in archives
    /\ ingestPc = "idle"
    /\ walk = {}
    /\ all_dataframes = <<>>
    /\ archivedNow = {}
    /\ returned = <<>>
    /\ archivedBy = <<>>

IngestInit == IngestStart(SUBSET InboxCandidates, SUBSET ArchiveCandidates)

IngestIdle == IngestStart({{}}, {{}})

\* the call of process_confirmation_files: lines 233-236
StartRun ==
    /\ ingestPc = "idle"
    /\ UNCHANGED notIngest
    /\ Len(returned) < MaxRuns
    /\ ingestPc' = "walk"
    /\ walk' = inbox
    /\ all_dataframes' = <<>>
    /\ archivedNow' = {}
    /\ UNCHANGED <<inbox, archive, returned, archivedBy>>

\* os.path.exists(processed_path)
AlreadyProcessed(f) == \E a \in archive : a.name = f.name

\* one iteration of the inner loop, lines 237-254; os.walk is top-down, so
\* the files of source_dir itself come before those of its subdirectories
VisitFile(f, mv) ==
    /\ ingestPc = "walk"
    /\ UNCHANGED notIngest
    /\ f \in walk
    /\ f.dir # "" => \A g \in walk : g.dir # ""
    /\ walk' = walk \ {f}
    /\ UNCHANGED <<ingestPc, returned, archivedBy>>
    /\ IF ~EndsWith(f.name, DotXls) \/ AlreadyProcessed(f)
       THEN UNCHANGED <<inbox, archive, all_dataframes, archivedNow>>
       ELSE /\ all_dataframes' = Append(all_dataframes, append_data_from_file(f))
            /\ CASE mv = "moved" ->
                       /\ inbox' = inbox \ {f}
                       /\ archive' = archive \cup {Archived(f)}
                       /\ archivedNow' = archivedNow \cup {f.name}
                 [] mv = "copied" ->
                       /\ archive' = archive \cup {Archived(f)}
                       /\ archivedNow' = archivedNow \cup {f.name}
                       /\ UNCHANGED inbox
                 [] mv = "failed" ->
                       UNCHANGED <<inbox, archive, archivedNow>>

\* lines 256-260
EndRun ==
    /\ ingestPc = "walk"
    /\ UNCHANGED notIngest
    /\ walk = {}
    /\ ingestPc' = "idle"
    /\ returned' = Append(returned, ReturnOfRun(all_dataframes))
    /\ archivedBy' = Append(archivedBy, archivedNow)
    /\ UNCHANGED <<inbox, archive, walk, all_dataframes, archivedNow>>

IngestNext ==
    \/ StartRun
    \/ \E f \in walk, mv \in MoveOutcomes : VisitFile(f, mv)
    \/ EndRun

(***************************************************************************)
(* orders.py: export_orders_to_dbf_files and upload_file_to_ftp.           *)
(* An order is its id and its items; an item its offer id and its count    *)
(* as the API sent it.  A .dbf file is named by the order id and holds     *)
(* rows; a row keeps the offer id, the quantity and the order number.      *)
(***************************************************************************)
Item(offer, count) == [offerId |-> offer, count |-> count]
Order(id, items) == [id |-> id, items |-> items]
DbfFile(id, rows) == [name |-> id, rows |-> rows]
DbfRow(offer, qty, id) == [offer_id |-> offer, qty |-> qty, post_num |-> id]

\* os.path.exists(filename) reports no file, whatever the directory holds
NeverExists(dir, id) == FALSE

\* os.path.exists(filename) for filename = <output_dir>/<order id>.dbf
FileExists(dir, id) == \E f \in dir : f.name = id

\* the rows table.append writes for the items of an order, up to the first
\* item whose conversion raises; raised tells whether one did
RECURSIVE AppendItems(_, _, _)
AppendItems(items, id, rows) ==
    IF items = <<>> THEN [raised |-> FALSE, rows |-> rows]
    ELSE LET qty == PyInt(Head(items).count)
         IN  IF qty.ok
             THEN AppendItems(Tail(items), id,
                              Append(rows, DbfRow(Head(items).offerId, qty.v, id)))
             ELSE [raised |-> TRUE, rows |-> rows]

\* what the FTP server does during one upload_file_to_ftp: each field tells
\* whether that step succeeds when the upload gets to it
FtpSessions == [connect : BOOLEAN, login : BOOLEAN, mkd : BOOLEAN, stor : BOOLEAN]

\* upload_file_to_ftp: the remote directory and files afterwards; the call
\* returns normally in every case
UploadFileToFtp(file, ftp, dirExists, stored) ==
    IF ~ftp.connect \/ ~ftp.login
    THEN [dir |-> dirExists, files |-> stored]
    ELSE IF ~dirExists /\ ~ftp.mkd
         THEN [dir |-> dirExists, files |-> stored]
         ELSE [dir |-> TRUE,
               files |-> IF ftp.stor
                         THEN {g \in stored : g.name # file.name} \cup {file}
                         ELSE stored]

\* items with the counts 1, 2 and null
ItemA == Item("A", Num(10))
ItemB == Item("B", Num(20))
ItemC == Item("C", Null)
ItemLists == {<<>>, <<ItemA>>, <<ItemB>>, <<ItemA, ItemB>>, <<ItemC>>, <<ItemA, ItemC>>}
OrderCandidates == {Order(id, items) : id \in {1, 2}, items \in ItemLists}

\* a file left by an earlier run
OldFile(id) == DbfFile(id, <<DbfRow("old", 1, id)>>)

ExportStart(lists, dirs, remotes) ==
    /\ export_orders \in lists
    /\ exportPc = IF export_orders = <<>> THEN "done" ELSE "loop"
    /\ cursor = 1
    /\ dbf_dir \in dirs
    /\ skipped = {}
    /\ ftp_dir \in remotes
    /\ ftp_orders = {}

ExportInit ==
    ExportStart(SeqsUpTo(OrderCandidates, MaxOrders), SUBSET {OldFile(1)}, BOOLEAN)

ExportIdle == ExportStart({<<>>}, {{}}, {FALSE})

\* where the loop goes after the order at cursor
NextOrder ==
    /\ cursor' = cursor + 1
    /\ exportPc' = IF cursor = Len(export_orders) THEN "done" ELSE "loop"

\* one iteration of the loop of export_orders_to_dbf_files, lines 87-140
ExportOrder(ftp) ==
    /\ exportPc = "loop"
    /\ UNCHANGED notExport
    /\ UNCHANGED export_orders
    /\ LET order == export_orders[cursor]
           written == AppendItems(order.items, order.id, <<>>)
           file == DbfFile(order.id, written.rows)
           up == UploadFileToFtp(file, ftp, ftp_dir, ftp_orders)
       IN  IF order.items = <<>>
           THEN /\ NextOrder
                /\ UNCHANGED <<dbf_dir, skipped, ftp_dir, ftp_orders>>
           ELSE IF FileExists(dbf_dir, order.id)
                THEN /\ NextOrder
                     /\ skipped' = skipped \cup {order.id}
                     /\ UNCHANGED <<dbf_dir, ftp_dir, ftp_orders>>
                ELSE /\ dbf_dir' = {g \in dbf_dir : g.name # order.id} \cup {file}
                     /\ UNCHANGED skipped
                     /\ IF written.raised
                        THEN /\ exportPc' = "raised"
                             /\ UNCHANGED <<cursor, ftp_dir, ftp_orders>>
                        ELSE /\ NextOrder
                             /\ ftp_dir' = up.dir
                             /\ ftp_orders' = up.files

ExportNext == \E ftp \in FtpSessions : ExportOrder(ftp)

(***************************************************************************)
(* stocks.py and prices.py: prepare_batches.                               *)
(***************************************************************************)
Min(a, b) == IF a <= b THEN a ELSE b

\* a slice that stops one element early
SliceShort(s, lo, hi) == SubSeq(s, lo + 1, Min(hi, Len(s)) - 1)

\* Python's s[lo:hi] for 0 <= lo <= hi
Slice(s, lo, hi) == SubSeq(s, lo + 1, Min(hi, Len(s)))

StockOffer(id, qua) == [offerId |-> id, qua |-> qua]
PriceOffer(id, price, base) == [offerId |-> id, price |-> price, discountBase |-> base]

\* stocks.py lines 77-90: the request body of one batch
StockBatch(batch) ==
    [skus |-> [k \in 1..Len(batch) |->
                 [sku |-> batch[k].offerId, items |-> <<[count |-> batch[k].qua]>>]]]

\* prices.py lines 94-106
PriceBatch(batch) ==
    [offers |-> [k \in 1..Len(batch) |->
                   [offerId |-> batch[k].offerId,
                    price |-> [value |-> batch[k].price, currencyId |-> "RUR",
                               discountBase |-> batch[k].discountBase]]]]

\* for i in range(0, len(offers), batch_size), from i on
RECURSIVE StockBatchesFrom(_, _, _)
StockBatchesFrom(os, size, i) ==
    IF i >= Len(os) THEN <<>>
    ELSE <<StockBatch(Slice(os, i, i + size))>> \o StockBatchesFrom(os, size, i + size)

RECURSIVE PriceBatchesFrom(_, _, _)
PriceBatchesFrom(os, size, i) ==
    IF i >= Len(os) THEN <<>>
    ELSE <<PriceBatch(Slice(os, i, i + size))>> \o PriceBatchesFrom(os, size, i + size)

stock_prepare_batches(os, size) == StockBatchesFrom(os, size, 0)
price_prepare_batches(os, size) == PriceBatchesFrom(os, size, 0)

StockOffers == {StockOffer("A", 0), StockOffer("B", 5)}
PriceOffers == {PriceOffer("A", 200, 180), PriceOffer("B", 111, 100)}

BatchStart(stockLists, priceLists, sizes) ==
    /\ batchPc \in {"stock", "price"}
    /\ offers \in IF batchPc = "stock" THEN stockLists ELSE priceLists
    /\ batch_size \in sizes
    /\ batchKind = batchPc
    /\ batches = <<>>

BatchInit ==
    BatchStart(SeqsUpTo(StockOffers, MaxOffers), SeqsUpTo(PriceOffers, MaxOffers), 1..MaxBatch)

BatchIdle ==
    /\ batchPc = "idle"
    /\ offers = <<>>
    /\ batch_size = 0
    /\ batchKind = "none"
    /\ batches = <<>>

\* stocks.prepare_batches(offers, batch_size)
StockPrepareBatches ==
    /\ batchPc = "stock"
    /\ UNCHANGED notBatch
    /\ batches' = stock_prepare_batches(offers, batch_size)
    /\ batchPc' = "done"
    /\ UNCHANGED <<offers, batch_size, batchKind>>

\* prices.prepare_batches(offers, batch_size)
PricePrepareBatches ==
    /\ batchPc = "price"
    /\ UNCHANGED notBatch
    /\ batches' = price_prepare_batches(offers, batch_size)
    /\ batchPc' = "done"
    /\ UNCHANGED <<offers, batch_size, batchKind>>

BatchNext == StockPrepareBatches \/ PricePrepareBatches

(***************************************************************************)
(* confirmations.py: poll_report_status.                                   *)
(***************************************************************************)
\* what requests.get can do: raise a connection error, or answer with an
\* HTTP status code and a body whose result carries a status and maybe a file
PollAnswer(code, status, file) ==
    [exc |-> FALSE, status_code |-> code, status |-> status, file |-> file]
PollConnectionError ==
    [exc |-> TRUE, status_code |-> 0, status |-> "none", file |-> "none"]

\* the report statuses served; "none" is a body without a status
ReportStatuses == {"DONE", "PROCESSING", "NEW", "PENDING", "ERROR", "FAILED", "none"}

PollResponses ==
    {PollAnswer(200, st, "none") : st \in ReportStatuses}
        \cup {PollAnswer(200, "DONE", "url"), PollAnswer(429, "none", "none"),
              PollAnswer(503, "none", "none"), PollConnectionError}

\* response.raise_for_status()
RaisesForStatus(r) == r.status_code >= 400 /\ r.status_code < 600

\* the list of line 296
InProgressStatuses == {"PROCESSING", "NEW", "PENDING"}

\* the value None, or the file of a finished report ("none" when absent)
PollNone == [none |-> TRUE, file |-> "none"]
PollFile(f) == [none |-> f = "none", file |-> f]

PollStart(retries, delays, pc0) ==
    /\ poll_max_retries \in retries
    /\ poll_retry_delay \in delays
    /\ pollPc = (IF pc0 = "poll" /\ poll_max_retries < 1 THEN "done" ELSE pc0)
    /\ poll_attempt = 0
    /\ poll_answers = <<>>
    /\ poll_sleeps = <<>>
    /\ poll_result = PollNone

PollInit == PollStart(0..MaxRetries, {5}, "poll")

PollIdle == PollStart({0}, {0}, "idle")

\* the return statements
PollReturn(v) ==
    /\ pollPc' = "done"
    /\ poll_result' = v
    /\ UNCHANGED <<poll_attempt, poll_sleeps>>

\* lines 296-297 without the return of line 300: any status but DONE waits
\* and polls again
PollStatusLenient(r) ==
    IF r.status = "DONE"
    THEN PollReturn(PollFile(r.file))
    ELSE /\ poll_sleeps' = Append(poll_sleeps, poll_retry_delay)
         /\ poll_attempt' = poll_attempt + 1
         /\ IF poll_attempt + 1 < poll_max_retries
            THEN UNCHANGED <<pollPc, poll_result>>
            ELSE /\ pollPc' = "done"
                 /\ poll_result' = PollNone

\* lines 294-300: the branch on the report status
PollStatus(r) ==
    IF r.status = "DONE"
    THEN PollReturn(PollFile(r.file))
    ELSE IF r.status \in InProgressStatuses
         THEN /\ poll_sleeps' = Append(poll_sleeps, poll_retry_delay)
              /\ poll_attempt' = poll_attempt + 1
              /\ IF poll_attempt + 1 < poll_max_retries
                 THEN UNCHANGED <<pollPc, poll_result>>
                 \* the loop is over: line 305
                 ELSE /\ pollPc' = "done"
                      /\ poll_result' = PollNone
         ELSE PollReturn(PollNone)

\* one iteration of the loop of poll_report_status, lines 285-303
Poll(r) ==
    /\ pollPc = "poll"
    /\ UNCHANGED notPoll
    /\ poll_answers' = Append(poll_answers, r)
    /\ UNCHANGED <<poll_max_retries, poll_retry_delay>>
    /\ IF r.exc \/ RaisesForStatus(r)
       THEN PollReturn(PollNone)
       ELSE PollStatus(r)

PollNext == \E r \in PollResponses : Poll(r)

(***************************************************************************)
(* confirmations.py: download_from_ftp.  A remote file is its name and its *)
(* content; the local copies go to the top of the inbox.                   *)
(***************************************************************************)
RemoteFile(name, data) == [name |-> name, data |-> data]

\* the test with the extension cut off the end of the name only
MatchesDivisionSuffix(filename, division) ==
    /\ EndsWith(filename, DotXls)
    /\ Contains(filename, "_")
    /\ SubSeq(RSplitTail(filename, "_"), 1, Len(RSplitTail(filename, "_")) - 4) = division

\* the test of lines 57-61
MatchesDivision(filename, division) ==
    /\ EndsWith(filename, DotXls)
    /\ Contains(filename, "_")
    /\ RemoveAll(RSplitTail(filename, "_"), DotXls) = division

\* lines 63-64
new_filename(filename) == RSplitHead(filename, "_") \o DotXls

\* what the server and the network do to one connection attempt
ConnectOutcomes == {"refused", "login_denied", "cwd_denied", "nlst_failed", "listed"}

\* what they do to the transfer of one file: RETR and DELE succeed, RETR
\* fails (the local file, opened for writing, is left truncated), or RETR
\* succeeds and DELE fails
TransferOutcomes == {"ok", "retr_failed", "dele_failed"}

\* the remote names the model draws the directory from: two files of
\* division F1, one of F2, one that is no .xls, one without underscore, and
\* one with the extension twice
RemoteNames ==
    { <<"1", "_", "F", "1">> \o DotXls,
      <<"1", "_", "2", "_", "F", "1">> \o DotXls,
      <<"1", "_", "F", "2">> \o DotXls,
      <<"1", "_", "F", "1", ".", "t", "x", "t">>,
      <<"1", "F", "1">> \o DotXls,
      <<"3", "_", "F", "1">> \o DotXls \o DotXls }

RemoteCandidates == {RemoteFile(n, Sheet(<<Len(n)>>)) : n \in RemoteNames}

DivisionIds == {<<"F", "1">>, <<"F", "2">>}

\* an empty remote directory, and one with a file of division F1 and a file
\* of division F2
TwoFileRemotes ==
    { {},
      { RemoteFile(<<"1", "_", "F", "1">> \o DotXls, Sheet(<<8>>)),
        RemoteFile(<<"1", "_", "F", "2">> \o DotXls, Sheet(<<8>>)) } }

FetchStart(divisions, retries, remotes, pc0) ==
    /\ division_id \in divisions
    /\ fetch_max_retries \in retries
    /\ remote \in remotes
    /\ fetchPc = (IF pc0 = "connect" /\ fetch_max_retries < 1 THEN "done" ELSE pc0)
    /\ fetch_attempt = 0
    /\ files = {}
    /\ remaining = {}
    /\ connections = 0
    /\ fetch_sleeps = 0
    /\ retrieved = {}
    /\ deleted = {}
    /\ retr_count = [n \in RemoteNames |-> 0]
    /\ retr_failed = {}

FetchInit == FetchStart(DivisionIds, 0..MaxRetries, SUBSET RemoteCandidates, "connect")

FetchIdle == FetchStart({<<>>}, {0}, {{}}, "idle")

\* one pass of the while loop up to the for loop, lines 29-54: a failure
\* waits and counts an attempt
Connect(o) ==
    /\ fetchPc = "connect"
    /\ UNCHANGED notFetch
    /\ connections' = connections + 1
    /\ UNCHANGED <<division_id, fetch_max_retries, remote, inbox, retrieved, deleted,
                   retr_count, retr_failed>>
    /\ IF o = "listed"
       THEN /\ files' = {f.name : f \in remote}
            /\ remaining' = {f.name : f \in remote}
            /\ fetchPc' = IF remote = {} THEN "done" ELSE "files"
            /\ UNCHANGED <<fetch_attempt, fetch_sleeps>>
       ELSE /\ fetch_sleeps' = fetch_sleeps + 1
            /\ fetch_attempt' = fetch_attempt + 1
            /\ fetchPc' = IF fetch_attempt + 1 < fetch_max_retries THEN "connect" ELSE "done"
            /\ UNCHANGED <<files, remaining>>

\* the inbox after open(local_path, 'wb') and the transfer
Written(name, data) ==
    {g \in inbox : ~(g.dir = "" /\ g.name = name)} \cup {File("", name, data)}

\* a transfer that deletes the remote file whatever RETR did
RetrieveAndDeleteAnyway(f, o) ==
    /\ inbox' = Written(new_filename(f.name), IF o = "retr_failed" THEN Corrupt ELSE f.data)
    /\ remote' = remote \ {f}
    /\ deleted' = deleted \cup {f.name}
    /\ retr_failed' = IF o = "retr_failed" THEN retr_failed \cup {f.name} ELSE retr_failed
    /\ fetch_sleeps' = IF o = "ok" THEN fetch_sleeps ELSE fetch_sleeps + 1

\* lines 67-77: open(local_path, 'wb'), RETR and, after the file is closed,
\* DELE; an error of either is logged and waited for
Retrieve(f, o) ==
    CASE o = "ok" ->
           /\ inbox' = Written(new_filename(f.name), f.data)
           /\ remote' = remote \ {f}
           /\ deleted' = deleted \cup {f.name}
           /\ UNCHANGED <<fetch_sleeps, retr_failed>>
      [] o = "dele_failed" ->
           /\ inbox' = Written(new_filename(f.name), f.data)
           /\ fetch_sleeps' = fetch_sleeps + 1
           /\ UNCHANGED <<remote, deleted, retr_failed>>
      [] o = "retr_failed" ->
           /\ inbox' = Written(new_filename(f.name), Corrupt)
           /\ fetch_sleeps' = fetch_sleeps + 1
           /\ retr_failed' = retr_failed \cup {f.name}
           /\ UNCHANGED <<remote, deleted>>

\* one iteration of the for loop, lines 56-77, and the return of line 82
\* after the last one
Transfer(filename, o) ==
    /\ fetchPc = "files"
    /\ UNCHANGED notFetch
    /\ filename \in remaining
    /\ remaining' = remaining \ {filename}
    /\ fetchPc' = IF remaining = {filename} THEN "done" ELSE "files"
    /\ UNCHANGED <<division_id, fetch_max_retries, fetch_attempt, files, connections>>
    /\ IF MatchesDivision(filename, division_id)
       THEN /\ retrieved' = retrieved \cup {<<filename, new_filename(filename)>>}
            /\ retr_count' = [retr_count EXCEPT ![filename] = @ + 1]
            /\ Retrieve(CHOOSE g \in remote : g.name = filename, o)
       ELSE UNCHANGED <<inbox, remote, retrieved, deleted, fetch_sleeps, retr_count,
                        retr_failed>>

FetchNext ==
    \/ \E o \in ConnectOutcomes : Connect(o)
    \/ \E filename \in RemoteNames, o \in TransferOutcomes : Transfer(filename, o)

(***************************************************************************)
(* float64 arithmetic, as pandas does it on the Price, MarkUP, NewPrice and *)
(* DiscountPrice columns.  A natural number of any size is a sequence of    *)
(* limbs of LimbBits bits, least significant first, without a leading zero  *)
(* limb; a finite positive float is a significand of at most Precision bits *)
(* and a binary exponent.                                                   *)
(***************************************************************************)
LimbBits == 12
Base == 2^LimbBits
\* bits of a float64 significand
Precision == 53

RECURSIVE BigOfNat(_)
BigOfNat(n) == IF n = 0 THEN <<>> ELSE <<n % Base>> \o BigOfNat(n \div Base)

RECURSIVE NatOfBig(_)
NatOfBig(a) == IF a = <<>> THEN 0 ELSE Head(a) + Base * NatOfBig(Tail(a))

RECURSIVE Trim(_)
Trim(a) == IF a # <<>> /\ a[Len(a)] = 0 THEN Trim(SubSeq(a, 1, Len(a) - 1)) ELSE a

\* a + b + c, c a carry
RECURSIVE BigAdd(_, _, _)
BigAdd(a, b, c) ==
    IF a = <<>> /\ b = <<>> THEN (IF c = 0 THEN <<>> ELSE <<c>>)
    ELSE LET x == IF a = <<>> THEN 0 ELSE Head(a)
             y == IF b = <<>> THEN 0 ELSE Head(b)
             t == x + y + c
         IN  <<t % Base>> \o BigAdd(IF a = <<>> THEN a ELSE Tail(a),
                                    IF b = <<>> THEN b ELSE Tail(b), t \div Base)

\* a * d + c for one limb d
RECURSIVE BigMulSmall(_, _, _)
BigMulSmall(a, d, c) ==
    IF a = <<>> THEN (IF c = 0 THEN <<>> ELSE <<c>>)
    ELSE LET t == Head(a) * d + c
         IN  <<t % Base>> \o BigMulSmall(Tail(a), d, t \div Base)

RECURSIVE BigMul(_, _)
BigMul(a, b) ==
    IF a = <<>> \/ b = <<>> THEN <<>>
    ELSE Trim(BigAdd(BigMulSmall(a, Head(b), 0), <<0>> \o BigMul(a, Tail(b)), 0))

\* quotient and remainder of a by a small d, from the most significant limb,
\* r the remainder carried in
RECURSIVE BigDivSmall(_, _, _)
BigDivSmall(a, d, r) ==
    IF a = <<>> THEN [q |-> <<>>, r |-> r]
    ELSE LET t == r * Base + a[Len(a)]
             rest == BigDivSmall(SubSeq(a, 1, Len(a) - 1), d, t % d)
         IN  [q |-> Append(rest.q, t \div d), r |-> rest.r]

RECURSIVE BitLenNat(_)
BitLenNat(n) == IF n = 0 THEN 0 ELSE 1 + BitLenNat(n \div 2)

BitLen(a) == IF a = <<>> THEN 0 ELSE LimbBits * (Len(a) - 1) + BitLenNat(a[Len(a)])

\* bit i of a, bit 0 the least significant
Bit(a, i) ==
    IF i \div LimbBits + 1 > Len(a) THEN 0
    ELSE (a[i \div LimbBits + 1] \div 2^(i % LimbBits)) % 2

\* some of the s lowest bits of a is set
AnyLowBit(a, s) == \E i \in 0..(s - 1) : Bit(a, i) = 1

\* a * 2^s and a \div 2^s
ShiftLeft(a, s) ==
    IF a = <<>> THEN <<>>
    ELSE [k \in 1..(s \div LimbBits) |-> 0] \o BigMulSmall(a, 2^(s % LimbBits), 0)

ShiftRight(a, s) ==
    LET q == s \div LimbBits
        r == s % LimbBits
        limb(k) == IF k <= Len(a) THEN a[k] ELSE 0
    IN  IF q >= Len(a) THEN <<>>
        ELSE Trim([k \in 1..(Len(a) - q) |->
                     (limb(k + q) \div 2^r) + (limb(k + q + 1) % 2^r) * 2^(LimbBits - r)])

Float(m, e) == [nan |-> FALSE, m |-> m, e |-> e]
FloatNaN == [nan |-> TRUE, m |-> <<>>, e |-> 0]

\* the float nearest to m * 2^e (plus, with sticky, a fraction of its last
\* place): round to nearest, ties to even
RoundToFloat(m, e, sticky) ==
    LET s == BitLen(m) - Precision
        q == ShiftRight(m, s)
        up == Bit(m, s - 1) = 1 /\ (sticky \/ AnyLowBit(m, s - 1) \/ Bit(q, 0) = 1)
    IN  IF s <= 0 THEN Float(m, e)
        ELSE Float(IF up THEN BigAdd(q, <<1>>, 0) ELSE q, e + s)

\* the float a cell holding the integer n is read as
FloatOfNat(n) == Float(BigOfNat(n), 0)

\* the float a cell holding the decimal n/d is read as
FloatOfRatio(n, d) ==
    LET dv == BigDivSmall(ShiftLeft(BigOfNat(n), Precision + LimbBits), d, 0)
    IN  RoundToFloat(Trim(dv.q), 0 - (Precision + LimbBits), dv.r # 0)

\* x * y of two float64
FloatMul(x, y) ==
    IF x.nan \/ y.nan THEN FloatNaN ELSE RoundToFloat(BigMul(x.m, y.m), x.e + y.e, FALSE)

\* math.ceil(x): ValueError for NaN
PyCeil(x) ==
    IF x.nan THEN Raised
    ELSE IF x.e >= 0 THEN Ok(NatOfBig(ShiftLeft(x.m, x.e)))
    ELSE Ok(NatOfBig(ShiftRight(x.m, 0 - x.e)) + (IF AnyLowBit(x.m, 0 - x.e) THEN 1 ELSE 0))

(***************************************************************************)
(* prices.py: prepare_offers_data.  A sheet is the sequence of its rows; a *)
(* Price cell holds an integer, a MarkUP cell a decimal in hundredths or    *)
(* nothing, an article cell a text.                                        *)
(***************************************************************************)
Dec(n) == [blank |-> FALSE, hundredths |-> n]
BlankCell == [blank |-> TRUE, hundredths |-> 0]

ProductRow(a, price, mark) == [Artikul |-> a, Price |-> price, Mark |-> mark]
MarkupRow(mark, markup) == [Mark |-> mark, MarkUP |-> markup]

\* pd.read_excel of a MarkUP cell: float64, NaN for an empty cell
ReadNumber(cell) == IF cell.blank THEN FloatNaN ELSE FloatOfRatio(cell.hundredths, 100)

\* the literal 1.8 of line 50, in hundredths
DefaultMarkUP == 180

\* Series.fillna(1.8)
FillNa(x) == IF x.nan THEN FloatOfRatio(DefaultMarkUP, 100) ELSE x

\* str() of an article cell that holds a text
PyStr(cell) == cell.s

\* the rows of the markup sheet with that Mark, in sheet order
Matches(mark, markups) == SelectSeq(markups, LAMBDA r : r.Mark = mark)

\* one row of the left merge with its MarkUP filled
MergedRow(p, x) == [Artikul |-> p.Artikul, Price |-> FloatOfNat(p.Price), Mark |-> p.Mark,
                    MarkUP |-> FillNa(x)]

\* df_products.merge(df_markups, on="Mark", how="left") and fillna: the
\* product rows in order, each once per markup row of its Mark, or once with
\* NaN when there is none
RECURSIVE Merge(_, _)
Merge(products, markups) ==
    IF products = <<>> THEN <<>>
    ELSE LET p == Head(products)
             ms == Matches(p.Mark, markups)
         IN  (IF ms = <<>> THEN <<MergedRow(p, FloatNaN)>>
              ELSE [k \in 1..Len(ms) |-> MergedRow(p, ReadNumber(ms[k].MarkUP))])
             \o Merge(Tail(products), markups)

YandexMark == "YANDEX_old_price"

\* lines 54-56 on one row
Priced(row, markup_yandex) ==
    LET NewPrice == FloatMul(row.Price, row.MarkUP)
    IN  [Artikul |-> row.Artikul, NewPrice |-> NewPrice,
         DiscountPrice |-> FloatMul(NewPrice, markup_yandex)]

DigitChar(i) == CHOOSE c \in Digits : DigitVal(c) = i

ProductKinds == {<<10, "A">>, <<100, "A">>, <<100, "B">>, <<100, "C">>}

ProductSheets ==
    { [i \in 1..Len(ks) |-> ProductRow(Str(<<"a", DigitChar(i)>>), ks[i][1], ks[i][2])] :
        ks \in SeqsUpTo(ProductKinds, MaxProducts) }

MarkupRows ==
    { MarkupRow("A", Dec(110)), MarkupRow("A", Dec(200)), MarkupRow("B", BlankCell),
      MarkupRow(YandexMark, Dec(90)) }

MarkupSheets == SeqsUpTo(MarkupRows, MaxMarkups)

PricesStart(products, markups, columns, pc0) ==
    /\ df_products \in products
    /\ df_markups \in markups
    /\ has_columns \in columns
    /\ pricesPc = pc0
    /\ merged = <<>>
    /\ row_i = 1
    /\ price_offers = <<>>
    /\ price_error = "none"

PricesInit == PricesStart(ProductSheets, MarkupSheets, BOOLEAN, "load")

PricesIdle == PricesStart({<<>>}, {<<>>}, {TRUE}, "idle")

PricesRaise(e) ==
    /\ pricesPc' = "raised"
    /\ price_error' = e

\* a lookup that takes 1.0 when the markup sheet has no such row
LookupYandexOrOne(markups) ==
    LET ys == Matches(YandexMark, markups)
    IN  [ok |-> TRUE, v |-> IF ys = <<>> THEN FloatOfNat(1) ELSE ReadNumber(ys[1].MarkUP)]

\* line 55: .values[0] of the MarkUP cells of the rows whose Mark is
\* 'YANDEX_old_price'; IndexError when there is none
LookupYandex(markups) ==
    LET ys == Matches(YandexMark, markups)
    IN  [ok |-> ys # <<>>, v |-> IF ys = <<>> THEN FloatNaN ELSE ReadNumber(ys[1].MarkUP)]

\* lines 32-56: the column test, the merge, the two price columns
MergeAndPrice ==
    /\ pricesPc = "load"
    /\ UNCHANGED notPrices
    /\ UNCHANGED <<df_products, df_markups, has_columns, row_i, price_offers>>
    /\ LET found == LookupYandex(df_markups)
       IN  IF ~has_columns
           THEN PricesRaise("ValueError") /\ UNCHANGED merged
           ELSE IF ~found.ok
           THEN PricesRaise("IndexError") /\ UNCHANGED merged
           ELSE LET joined == Merge(df_products, df_markups)
                    markup_yandex == found.v
                IN  /\ merged' = [k \in 1..Len(joined) |-> Priced(joined[k], markup_yandex)]
                    /\ pricesPc' = IF joined = <<>> THEN "done" ELSE "rows"
                    /\ UNCHANGED price_error

\* one iteration of the for loop, lines 62-73, and the return after the last
AppendOffer ==
    /\ pricesPc = "rows"
    /\ UNCHANGED notPrices
    /\ UNCHANGED <<df_products, df_markups, has_columns, merged>>
    /\ LET row == merged[row_i]
           price == PyCeil(row.NewPrice)
           discount_base == PyCeil(row.DiscountPrice)
       IN  IF ~price.ok \/ ~discount_base.ok
           THEN PricesRaise("ValueError") /\ UNCHANGED <<row_i, price_offers>>
           ELSE /\ price_offers' = Append(price_offers,
                                          [offerId |-> PyStr(row.Artikul), price |-> price.v,
                                           discountBase |-> discount_base.v])
                /\ row_i' = row_i + 1
                /\ pricesPc' = IF row_i = Len(merged) THEN "done" ELSE "rows"
                /\ UNCHANGED price_error

PricesNext == MergeAndPrice \/ AppendOffer

(***************************************************************************)
(* stocks.py: prepare_offers_data.  A row of the sheet is its article cell *)
(* and its quantity cell; an article cell holds a text or nothing.         *)
(***************************************************************************)
StockRow(a, q) == [Artikul |-> a, Kolichestvo |-> q]

\* Series.astype(str) of an article cell: the text, 'nan' for an empty cell
AsTypeStr(cell) == IF cell.t = "nan" THEN <<"n", "a", "n">> ELSE cell.s

\* a fillna that leaves the empty cells empty
FillNaNothing(cell) == cell

\* Series.fillna(0)
FillNaZero(cell) == IF cell.t = "nan" THEN Num(0) ELSE cell

\* line 40 on one cell: fillna(0).astype(int)
QuantityOf(cell) == PyInt(FillNaZero(cell))

\* the quantity cells the model draws sheets from: 1, 2.5, nothing, the
\* texts '3' and 'x'
QuantityCells == {Num(10), Num(25), NaN, Str(<<"3">>), Str(<<"x">>)}

ArticleCells == {Str(<<"a">>), NaN}

StockSheets ==
    SeqsUpTo({StockRow(a, q) : a \in ArticleCells, q \in QuantityCells}, MaxStockRows)

StocksStart(sheets, columns, pc0) ==
    /\ stock_sheet \in sheets
    /\ stock_has_columns \in columns
    /\ stocksPc = pc0
    /\ stock_frame = <<>>
    /\ stock_i = 1
    /\ stock_offers = <<>>
    /\ stock_error = "none"

StocksInit == StocksStart(StockSheets, BOOLEAN, "load")

StocksIdle == StocksStart({<<>>}, {TRUE}, "idle")

StocksRaise(e) ==
    /\ stocksPc' = "raised"
    /\ stock_error' = e

\* a load that answers a sheet without its columns with no offers
LoadStockSheetLenient ==
    /\ stocksPc = "load"
    /\ UNCHANGED notStocks
    /\ UNCHANGED <<stock_sheet, stock_has_columns, stock_i, stock_offers>>
    /\ IF ~stock_has_columns
       THEN stocksPc' = "done" /\ UNCHANGED <<stock_frame, stock_error>>
       ELSE IF \E k \in 1..Len(stock_sheet) : ~QuantityOf(stock_sheet[k].Kolichestvo).ok
       THEN StocksRaise("ValueError") /\ UNCHANGED stock_frame
       ELSE /\ stock_frame' = [k \in 1..Len(stock_sheet) |->
                                 StockRow(AsTypeStr(stock_sheet[k].Artikul),
                                          QuantityOf(stock_sheet[k].Kolichestvo).v)]
            /\ stocksPc' = IF stock_sheet = <<>> THEN "done" ELSE "rows"
            /\ UNCHANGED stock_error

\* lines 31-40: the column test and the two conversions
LoadStockSheet ==
    /\ stocksPc = "load"
    /\ UNCHANGED notStocks
    /\ UNCHANGED <<stock_sheet, stock_has_columns, stock_i, stock_offers>>
    /\ IF ~stock_has_columns
       THEN StocksRaise("ValueError") /\ UNCHANGED stock_frame
       ELSE IF \E k \in 1..Len(stock_sheet) : ~QuantityOf(stock_sheet[k].Kolichestvo).ok
       THEN StocksRaise("ValueError") /\ UNCHANGED stock_frame
       ELSE /\ stock_frame' = [k \in 1..Len(stock_sheet) |->
                                 StockRow(AsTypeStr(stock_sheet[k].Artikul),
                                          QuantityOf(stock_sheet[k].Kolichestvo).v)]
            /\ stocksPc' = IF stock_sheet = <<>> THEN "done" ELSE "rows"
            /\ UNCHANGED stock_error

\* one iteration of the for loop, lines 46-55, and the return after the last
AppendStockOffer ==
    /\ stocksPc = "rows"
    /\ UNCHANGED notStocks
    /\ UNCHANGED <<stock_sheet, stock_has_columns, stock_frame, stock_error>>
    /\ stock_offers' = Append(stock_offers,
                              StockOffer(stock_frame[stock_i].Artikul,
                                         stock_frame[stock_i].Kolichestvo))
    /\ stock_i' = stock_i + 1
    /\ stocksPc' = IF stock_i = Len(stock_frame) THEN "done" ELSE "rows"

StocksNext == LoadStockSheet \/ AppendStockOffer

(***************************************************************************)
(* stocks.py, prices.py: send_request_with_retries.  The two functions     *)
(* differ in the HTTP verb of the request only.  The response comes from   *)
(* the stand-in FakeResponse() that the code constructs, or from the       *)
(* request written beside it.                                              *)
(***************************************************************************)
\* a response with its status code and its Retry-After header in seconds
\* (NoHeader when the response carries none)
NoHeader == 0 - 1
SendAnswer(code, retry_after) == [exc |-> FALSE, status_code |-> code, retry_after |-> retry_after]
SendNetworkError == [exc |-> TRUE, status_code |-> 0, retry_after |-> NoHeader]

\* FakeResponse(): status 200, Retry-After 7
FakeResponse == SendAnswer(200, 7)

\* what the live request can bring
SendResponses ==
    {SendAnswer(c, NoHeader) : c \in {200, 400, 404, 500, 503}}
        \cup {SendAnswer(429, NoHeader), SendAnswer(429, 7), SendNetworkError}

\* the result: response.json(), or None
SendBody == "json"
SendNone == "None"

\* int(response.headers.get("Retry-After", 10))
RetryAfter(r) == IF r.retry_after = NoHeader THEN 10 ELSE r.retry_after

SendStart(kinds, transports, attempts, pc0) ==
    /\ send_kind \in kinds
    /\ send_transport \in transports
    /\ send_max_attempts \in attempts
    /\ sendPc = (IF pc0 = "send" /\ send_max_attempts < 1 THEN "done" ELSE pc0)
    /\ send_attempt = 0
    /\ send_requests = 0
    /\ send_answers = <<>>
    /\ send_waits = <<>>
    /\ send_result = SendNone

SendInit == SendStart({"stock", "price"}, {"stub", "live"}, 0..MaxRetries, "send")

SendIdle == SendStart({"none"}, {"stub"}, {0}, "idle")

SendReturn(v) ==
    /\ sendPc' = "done"
    /\ send_result' = v
    /\ UNCHANGED <<send_attempt, send_waits>>

\* a retry branch that waits without counting the attempt
WaitAndRetryUncounted(seconds) ==
    /\ send_waits' = Append(send_waits, seconds)
    /\ UNCHANGED <<send_attempt, sendPc, send_result>>

\* the retry branches: attempt += 1 and time.sleep, then the test of the
\* while loop and the return None after it
WaitAndRetry(seconds) ==
    /\ send_waits' = Append(send_waits, seconds)
    /\ send_attempt' = send_attempt + 1
    /\ sendPc' = IF send_attempt + 1 < send_max_attempts THEN "send" ELSE "done"
    /\ UNCHANGED send_result

\* one pass of the while loop
SendRequest(r) ==
    /\ sendPc = "send"
    /\ UNCHANGED notSend
    /\ send_transport = "stub" => r = FakeResponse
    /\ send_requests' = IF send_transport = "live" THEN send_requests + 1 ELSE send_requests
    /\ send_answers' = Append(send_answers, r)
    /\ UNCHANGED <<send_kind, send_transport, send_max_attempts>>
    /\ CASE r.exc -> WaitAndRetry(3)
         [] ~r.exc /\ r.status_code = 200 -> SendReturn(SendBody)
         [] ~r.exc /\ 500 <= r.status_code /\ r.status_code < 600 -> WaitAndRetry(3)
         [] ~r.exc /\ r.status_code = 429 -> WaitAndRetry(RetryAfter(r))
         [] OTHER -> SendReturn(SendNone)

SendNext == \E r \in SendResponses \cup {FakeResponse} : SendRequest(r)

(***************************************************************************)
(* utils.py: download_from_ftp, the download of the one inbound file.      *)
(***************************************************************************)
\* what the server and the network do to one connection attempt: the last
\* two are a listing without the file and a listing with it
PullConnectOutcomes ==
    {"refused", "login_denied", "cwd_denied", "nlst_failed", "missing", "listed"}

PullStart(retries, locals, pc0) ==
    /\ pull_max_retries \in retries
    /\ supplier_file \in locals
    /\ pullPc = pc0
    /\ pull_attempt = 0
    /\ file_attempt = 0
    /\ pull_connections = 0
    /\ pull_retrs = 0
    /\ pull_sleeps = 0
    /\ pull_outcome = "none"

\* a call: without attempts the while loop is skipped (line 64)
PullCall(retries, locals) ==
    /\ PullStart(retries, locals, "connect")
    /\ pull_max_retries >= 1

PullSkipped(locals) ==
    /\ pull_max_retries = 0
    /\ supplier_file \in locals
    /\ pullPc = "done"
    /\ pull_attempt = 0
    /\ file_attempt = 0
    /\ pull_connections = 0
    /\ pull_retrs = 0
    /\ pull_sleeps = 0
    /\ pull_outcome = "no_connection"

PullInit == PullCall(1..MaxRetries, {"absent", "old"}) \/ PullSkipped({"absent", "old"})

PullIdle == PullStart({0}, {"absent"}, "idle")

\* one pass of the while loop up to the for loop, lines 12-41
PullConnect(o) ==
    /\ pullPc = "connect"
    /\ UNCHANGED notPull
    /\ pull_connections' = pull_connections + 1
    /\ UNCHANGED <<pull_max_retries, supplier_file, pull_retrs>>
    /\ CASE o = "listed" ->
              /\ pullPc' = "retr"
              /\ file_attempt' = 0
              /\ UNCHANGED <<pull_attempt, pull_sleeps, pull_outcome>>
         [] o = "missing" ->
              /\ pullPc' = "done"
              /\ pull_outcome' = "missing"
              /\ UNCHANGED <<pull_attempt, file_attempt, pull_sleeps>>
         [] OTHER ->
              /\ pull_sleeps' = pull_sleeps + 1
              /\ pull_attempt' = pull_attempt + 1
              /\ pullPc' = IF pull_attempt + 1 < pull_max_retries THEN "connect" ELSE "done"
              /\ pull_outcome' =
                    IF pull_attempt + 1 < pull_max_retries THEN pull_outcome ELSE "no_connection"
              /\ UNCHANGED file_attempt

\* a failed transfer that is tried again without end
RetrFailedUnbounded ==
    /\ supplier_file' = "partial"
    /\ pull_sleeps' = pull_sleeps + 1
    /\ UNCHANGED <<file_attempt, pullPc, pull_outcome>>

\* lines 49-55: the failed transfer leaves what was written of the file, waits,
\* and after the last file_attempt the call returns
RetrFailed ==
    /\ supplier_file' = "partial"
    /\ pull_sleeps' = pull_sleeps + 1
    /\ file_attempt' = file_attempt + 1
    /\ pullPc' = IF file_attempt + 1 < pull_max_retries THEN "retr" ELSE "done"
    /\ pull_outcome' =
          IF file_attempt + 1 < pull_max_retries THEN pull_outcome ELSE "transfer_failed"

\* one pass of the for loop, lines 43-52: open(local_path, 'wb') and RETR
PullRetr(ok) ==
    /\ pullPc = "retr"
    /\ UNCHANGED notPull
    /\ pull_retrs' = pull_retrs + 1
    /\ UNCHANGED <<pull_max_retries, pull_attempt, pull_connections>>
    /\ IF ok
       THEN /\ supplier_file' = "new"
            /\ pullPc' = "done"
            /\ pull_outcome' = "downloaded"
            /\ UNCHANGED <<file_attempt, pull_sleeps>>
       ELSE RetrFailed

PullNext ==
    \/ \E o \in PullConnectOutcomes : PullConnect(o)
    \/ \E ok \in BOOLEAN : PullRetr(ok)

(***************************************************************************)
(* utils.py: copy_file_with_timestamp.  A file is its name and its chunks  *)
(* of at most 4096 bytes.                                                  *)
(***************************************************************************)
Source(kind, name, chunks) == [kind |-> kind, name |-> name, chunks |-> chunks]
DestFile(name, chunks) == [name |-> name, chunks |-> chunks]

\* os.path.splitext of a base name: the extension starts at the last dot,
\* unless only dots come before it
HasExt(name) ==
    /\ Contains(name, ".")
    /\ \E j \in 1..(LastIndex(name, ".") - 1) : name[j] # "."
SplitExtBase(name) == IF HasExt(name) THEN SubSeq(name, 1, LastIndex(name, ".") - 1) ELSE name
SplitExtExt(name) == IF HasExt(name) THEN SubSeq(name, LastIndex(name, "."), Len(name)) ELSE <<>>

\* lines 88-89
new_file_name(name, timestamp) ==
    SplitExtBase(name) \o <<"_">> \o timestamp \o SplitExtExt(name)

SourceNames == {<<"s">> \o DotXls, <<"s">>}
Timestamps == {<<"t", "1">>, <<"t", "2">>}
Chunks == {<<>>, <<"c1">>, <<"c1", "c2">>}

Sources ==
    {Source("missing", n, <<>>) : n \in SourceNames}
        \cup {Source("dir", n, <<>>) : n \in SourceNames}
        \cup {Source("file", n, c) : n \in SourceNames, c \in Chunks}

\* what dest_folder can hold before the call: nothing, or the copy of an
\* earlier call
EarlierCopies == {{}, {DestFile(new_file_name(<<"s">> \o DotXls, <<"t", "1">>), <<"c0">>)}}

CopyStart(sources, folders, clocks, pc0) ==
    /\ copy_src \in sources
    /\ dest_before \in folders
    /\ dest_dir = dest_before.exists
    /\ dest_files = dest_before.files
    /\ copy_clock \in clocks
    /\ copyPc = pc0
    /\ copy_pos = 0
    /\ copy_error = "none"
    /\ copy_result = <<>>

DestFolders ==
    {[exists |-> FALSE, files |-> {}]} \cup {[exists |-> TRUE, files |-> f] : f \in EarlierCopies}

CopyInit == CopyStart(Sources, DestFolders, Timestamps, "check")

CopyIdle ==
    CopyStart({Source("missing", <<>>, <<>>)}, {[exists |-> FALSE, files |-> {}]}, {<<>>}, "idle")

CopyRaise(e) ==
    /\ copyPc' = "raised"
    /\ copy_error' = e

\* the destination file of this call
DestName == new_file_name(copy_src.name, copy_clock)

\* a check that comes only after the destination directory is made
CheckSourceLate ==
    /\ copyPc = "check"
    /\ UNCHANGED notCopy
    /\ UNCHANGED <<copy_src, dest_files, dest_before, copy_clock, copy_pos, copy_result>>
    /\ dest_dir' = TRUE
    /\ IF copy_src.kind # "file"
       THEN CopyRaise("FileNotFoundError")
       ELSE copyPc' = "open" /\ UNCHANGED copy_error

\* lines 75-79: os.path.isfile(src_file), and the test of dest_folder
CheckSource ==
    /\ copyPc = "check"
    /\ UNCHANGED notCopy
    /\ UNCHANGED <<copy_src, dest_dir, dest_files, dest_before, copy_clock, copy_pos,
                   copy_result>>
    /\ IF copy_src.kind # "file"
       THEN CopyRaise("FileNotFoundError")
       ELSE /\ copyPc' = IF dest_dir THEN "open" ELSE "mkdir"
            /\ UNCHANGED copy_error

\* line 80: os.makedirs(dest_folder), outside the try
MakeDestination(ok) ==
    /\ copyPc = "mkdir"
    /\ UNCHANGED notCopy
    /\ UNCHANGED <<copy_src, dest_files, dest_before, copy_clock, copy_pos, copy_result>>
    /\ IF ok
       THEN dest_dir' = TRUE /\ copyPc' = "open" /\ UNCHANGED copy_error
       ELSE CopyRaise("OSError") /\ UNCHANGED dest_dir

\* lines 94-95: the two open calls; the second creates or empties dest_file
OpenFiles(o) ==
    /\ copyPc = "open"
    /\ UNCHANGED notCopy
    /\ UNCHANGED <<copy_src, dest_dir, dest_before, copy_clock, copy_pos>>
    /\ CASE o = "src_failed" ->
              CopyRaise("OSError") /\ UNCHANGED <<dest_files, copy_result>>
         [] o = "dest_failed" ->
              CopyRaise("OSError") /\ UNCHANGED <<dest_files, copy_result>>
         [] o = "opened" ->
              /\ dest_files' = {f \in dest_files : f.name # DestName}
                                  \cup {DestFile(DestName, <<>>)}
              /\ IF copy_src.chunks = <<>>
                 THEN copyPc' = "done" /\ copy_result' = DestName
                 ELSE copyPc' = "copy" /\ UNCHANGED copy_result
              /\ UNCHANGED copy_error

\* lines 96-97: one chunk read and written, or an I/O error logged and
\* re-raised; the return follows the last chunk
CopyChunk(ok) ==
    /\ copyPc = "copy"
    /\ UNCHANGED notCopy
    /\ UNCHANGED <<copy_src, dest_dir, dest_before, copy_clock>>
    /\ IF ok
       THEN /\ copy_pos' = copy_pos + 1
            /\ dest_files' = {f \in dest_files : f.name # DestName}
                                \cup {DestFile(DestName, SubSeq(copy_src.chunks, 1, copy_pos + 1))}
            /\ IF copy_pos + 1 = Len(copy_src.chunks)
               THEN copyPc' = "done" /\ copy_result' = DestName
               ELSE copyPc' = "copy" /\ UNCHANGED copy_result
            /\ UNCHANGED copy_error
       ELSE CopyRaise("OSError") /\ UNCHANGED <<copy_pos, dest_files, copy_result>>

CopyNext ==
    \/ CheckSource
    \/ \E ok \in BOOLEAN : MakeDestination(ok)
    \/ \E o \in {"src_failed", "dest_failed", "opened"} : OpenFiles(o)
    \/ \E ok \in BOOLEAN : CopyChunk(ok)

(***************************************************************************)
(* confirmations.py: main.  Steps 1 and 2 are download_from_ftp and         *)
(* process_confirmation_files as modelled above, run one after the other    *)
(* on the same inbox; steps 3 to 5 follow on the table step 2 returned.     *)
(***************************************************************************)
\* the table main holds after step 2
confirmations_df == returned[run_no]

\* whether that table has the columns of a confirmation sheet: pd.DataFrame()
\* of line 260 has none, a concatenation has those of the sheets read
HasColumns == all_dataframes # <<>>

\* confirmations_df.empty
Empty(table) == table.rows = <<>>

\* what generate_order_labels can give: the path of the file saved, None, or
\* an OSError of os.makedirs or open in download_file
LabelOutcomes == {"saved", "None", "OSError"}

\* max_retries of update_order_statuses as main calls it (the default)
StatusRetries == 3

RunStart(pc0) ==
    /\ runPc = pc0
    /\ run_error = ""
    /\ recap_saved = FALSE
    /\ labels = ""
    /\ run_posts = 0
    /\ run_logged = FALSE
    /\ run_update = ""
    /\ run_no = 1
    /\ run_unsent = <<>>

RunInit == RunStart("download")

RunIdle == RunStart("idle")

\* an exception leaves main
RunRaise(e) ==
    /\ runPc' = "raised"
    /\ run_error' = e

\* line 646 returned
Downloaded ==
    /\ runPc = "download"
    /\ fetchPc = "done"
    /\ UNCHANGED notRun
    /\ runPc' = "ingest"
    /\ UNCHANGED <<run_error, recap_saved, labels, run_posts, run_logged, run_update, runsVars>>

\* line 649 returned or raised
Ingested ==
    /\ runPc = "ingest"
    /\ ingestPc = "idle"
    /\ Len(returned) = run_no
    /\ UNCHANGED notRun
    /\ IF confirmations_df.raised
       THEN RunRaise("ValueError")
       ELSE runPc' = "recap" /\ UNCHANGED run_error
    /\ UNCHANGED <<recap_saved, labels, run_posts, run_logged, run_update, runsVars>>

\* lines 652-653: pivot_table(values='QNT') raises KeyError on a table
\* without that column
SaveRecap ==
    /\ runPc = "recap"
    /\ UNCHANGED notRun
    /\ IF HasColumns
       THEN recap_saved' = TRUE /\ runPc' = "labels" /\ UNCHANGED run_error
       ELSE RunRaise("KeyError") /\ UNCHANGED recap_saved
    /\ UNCHANGED <<labels, run_posts, run_logged, run_update, runsVars>>

\* lines 656-657
OrderLabels(o) ==
    /\ runPc = "labels"
    /\ UNCHANGED notRun
    /\ labels' = o
    /\ IF o = "OSError"
       THEN RunRaise("OSError")
       ELSE runPc' = "status" /\ UNCHANGED run_error
    /\ UNCHANGED <<recap_saved, run_posts, run_logged, run_update, runsVars>>

\* lines 660-666: update_order_statuses sends between no POST and
\* max_retries POSTs and returns the ids sent, [] or None; ok tells whether
\* a POST was answered 200
UpdateOrLog(n, ok) ==
    /\ runPc = "status"
    /\ UNCHANGED notRun
    /\ n = 0 => ~ok
    /\ IF ~Empty(confirmations_df)
       THEN /\ run_posts' = n
            /\ run_update' = IF n = 0 THEN "nothing" ELSE IF ok THEN "sent" ELSE "failed"
            /\ UNCHANGED run_logged
       ELSE /\ n = 0
            /\ run_logged' = TRUE
            /\ run_update' = "nothing"
            /\ UNCHANGED run_posts
    /\ runPc' = "done"
    /\ UNCHANGED <<run_error, recap_saved, labels, runsVars>>

\* the table an invocation ingested and whose statuses it did not get sent:
\* step 5 failed, or main ended before it
Unsent ==
    IF /\ Len(returned) = run_no
       /\ ~confirmations_df.raised
       /\ ~Empty(confirmations_df)
       /\ run_update \in {"", "failed"}
    THEN <<confirmations_df>>
    ELSE <<>>

\* the next scheduled invocation of the script: a new process, the same
\* directories and the same server
NextRun ==
    /\ runPc \in {"done", "raised"}
    /\ run_no < MaxRuns
    /\ run_no' = run_no + 1
    /\ run_unsent' = run_unsent \o Unsent
    /\ runPc' = "download"
    /\ run_error' = ""
    /\ recap_saved' = FALSE
    /\ labels' = ""
    /\ run_posts' = 0
    /\ run_logged' = FALSE
    /\ run_update' = ""
    /\ fetchPc' = (IF fetch_max_retries < 1 THEN "done" ELSE "connect")
    /\ fetch_attempt' = 0
    /\ files' = {}
    /\ remaining' = {}
    /\ connections' = 0
    /\ fetch_sleeps' = 0
    /\ retrieved' = {}
    /\ deleted' = {}
    /\ retr_count' = [n \in RemoteNames |-> 0]
    /\ retr_failed' = {}
    /\ UNCHANGED <<division_id, fetch_max_retries, remote, ingestVars>>
    /\ UNCHANGED <<statusVars, exportVars, batchVars, pollVars, pricesVars, stocksVars,
                   sendVars, pullVars, copyVars, exchVars, recapVars, updVars, ordsVars,
                   uplVars, pagVars, dlVars, concVars, rexVars>>

RunNext ==
    \/ runPc = "download" /\ FetchNext
    \/ Downloaded
    \/ runPc = "ingest" /\ Len(returned) < run_no /\ IngestNext
    \/ Ingested
    \/ SaveRecap
    \/ \E o \in LabelOutcomes : OrderLabels(o)
    \/ \E n \in 0..StatusRetries, ok \in BOOLEAN : UpdateOrLog(n, ok)

RunsNext == RunNext \/ NextRun

(***************************************************************************)
(* main.py: main.  The four calls of lines 18-21, each the routine         *)
(* modelled above: utils.download_from_ftp, start_exchange_stock           *)
(* (prepare_offers_data, then update_stocks), start_exchange_price          *)
(* (prepare_offers_data, then update_prices), copy_file_with_timestamp.     *)
(* update_stocks and update_prices return whatever the API answers.         *)
(***************************************************************************)
ExchOrder == <<"download", "stock", "price", "copy">>

ExchStart(pc0, steps) ==
    /\ exchPc = pc0
    /\ exch_steps = steps
    /\ exch_error = "none"

ExchInit == ExchStart("download", <<"download">>)

ExchIdle == ExchStart("idle", <<>>)

\* main goes on to its next statement
ExchGoOn(step) ==
    /\ exchPc' = step
    /\ exch_steps' = Append(exch_steps, step)
    /\ UNCHANGED exch_error

\* an exception leaves main
ExchRaise(e) ==
    /\ exchPc' = "raised"
    /\ exch_error' = e
    /\ UNCHANGED exch_steps

\* line 18 returned
PullReturned ==
    /\ exchPc = "download"
    /\ pullPc = "done"
    /\ UNCHANGED notExch
    /\ ExchGoOn("stock")

\* the stock pipeline reads the inbound file from the supplier directory:
\* a complete copy can be read, whichever run left it there
InboundReadable == supplier_file \in {"old", "new"}

\* line 19, the inbound file missing or cut short: the read of
\* prepare_offers_data raises, the except of stocks.py 60-62 re-raises
InboundUnreadable ==
    /\ exchPc = "stock"
    /\ stocksPc = "load"
    /\ ~InboundReadable
    /\ UNCHANGED notExch
    /\ ExchRaise(IF supplier_file = "absent" THEN "FileNotFoundError" ELSE "ValueError")

\* a pipeline whose exception is swallowed
PipelineEndedAnyway(pc, error, next) ==
    /\ pc \in {"done", "raised"}
    /\ ExchGoOn(next)

\* line 19 or line 20 returned or raised: an exception of prepare_offers_data
\* is re-raised and leaves main, otherwise the update runs and returns
PipelineEnded(pc, error, next) ==
    /\ pc \in {"done", "raised"}
    /\ IF pc = "raised" THEN ExchRaise(error) ELSE ExchGoOn(next)

\* line 19
StockPipelineEnded ==
    /\ exchPc = "stock"
    /\ UNCHANGED notExch
    /\ PipelineEnded(stocksPc, stock_error, "price")

\* line 20
PricePipelineEnded ==
    /\ exchPc = "price"
    /\ UNCHANGED notExch
    /\ PipelineEnded(pricesPc, price_error, "copy")

\* line 21 returned or raised
CopyEnded ==
    /\ exchPc = "copy"
    /\ copyPc \in {"done", "raised"}
    /\ UNCHANGED notExch
    /\ IF copyPc = "raised"
       THEN ExchRaise(copy_error)
       ELSE exchPc' = "done" /\ UNCHANGED <<exch_steps, exch_error>>

ExchNext ==
    \/ exchPc = "download" /\ PullNext
    \/ PullReturned
    \/ exchPc = "stock" /\ InboundReadable /\ StocksNext
    \/ InboundUnreadable
    \/ StockPipelineEnded
    \/ exchPc = "price" /\ PricesNext
    \/ PricePipelineEnded
    \/ exchPc = "copy" /\ CopyNext
    \/ CopyEnded

(***************************************************************************)
(* confirmations.py: save_orders_to_excel and format_report_sheets.  A row  *)
(* of the merged table is its order key, its article code and its          *)
(* quantity; the other columns hold the same text in every row.  A sheet   *)
(* is its title and its grid, a sequence of rows of cells; a cell never     *)
(* written reads as None.  Styles, widths and print settings are left out.  *)
(***************************************************************************)
ConfRow(key, code, qnt) == [HDRTAG2 |-> key, CODEART |-> code, QNT |-> qnt]
Worksheet(title, grid) == [title |-> title, grid |-> grid]
Text(word) == Str(<<word>>)

\* sheet.cell(r, c).value
CellValue(grid, r, c) ==
    IF r <= Len(grid) /\ c <= Len(grid[r]) THEN grid[r][c] ELSE Null

\* sheet.cell(r, c).value = v
SetCell(grid, r, c, v) ==
    LET rows == IF r <= Len(grid) THEN grid
                ELSE grid \o [i \in 1..(r - Len(grid)) |-> <<>>]
        row == IF c <= Len(rows[r]) THEN rows[r]
               ELSE rows[r] \o [i \in 1..(c - Len(rows[r])) |-> Null]
    IN  [rows EXCEPT ![r] = [row EXCEPT ![c] = v]]

\* sheet.insert_rows(idx=1, amount=n)
InsertRows(grid, n) == [i \in 1..n |-> <<>>] \o grid

\* sheet.delete_cols(idx, amount)
DeleteCols(grid, idx, amount) ==
    [r \in 1..Len(grid) |->
        IF Len(grid[r]) < idx THEN grid[r]
        ELSE SubSeq(grid[r], 1, idx - 1) \o SubSeq(grid[r], idx + amount, Len(grid[r]))]

\* sheet.max_row
MaxRow(grid) == Len(grid)

RECURSIVE DigitsOf(_)
DigitsOf(n) == IF n < 10 THEN <<DigitChar(n)>> ELSE DigitsOf(n \div 10) \o <<DigitChar(n % 10)>>

\* f'{order_id}' of a whole number and of a text
FormatKey(key) == IF key.t = "num" THEN DigitsOf(IntOfNum(key.tenths)) ELSE key.s

\* f'ORDER {order_id}'
OrderSheetName(key) == <<"O", "R", "D", "E", "R", " ">> \o FormatKey(key)

\* the order of characters, for the texts the model uses: blank, digits
CharRank(c) == IF c = " " THEN 0 ELSE IF c \in Digits THEN 1 + DigitVal(c) ELSE 11

RECURSIVE TextBefore(_, _)
TextBefore(s, t) ==
    IF t = <<>> THEN FALSE
    ELSE IF s = <<>> THEN TRUE
    ELSE IF Head(s) = Head(t) THEN TextBefore(Tail(s), Tail(t))
    ELSE CharRank(Head(s)) < CharRank(Head(t))

\* the sort of group keys: numbers before texts, each in its own order
KeyBefore(a, b) ==
    CASE a.t = "num" /\ b.t = "num" -> a.tenths < b.tenths
      [] a.t = "num" /\ b.t # "num" -> TRUE
      [] a.t # "num" /\ b.t = "num" -> FALSE
      [] OTHER -> TextBefore(a.s, b.s)

\* the distinct values of a set, sorted
SortedKeys(keys) ==
    CHOOSE s \in [1..Cardinality(keys) -> keys] :
        /\ Range(s) = keys
        /\ \A i \in 1..(Len(s) - 1) : KeyBefore(s[i], s[i + 1])

RECURSIVE SumQnt(_)
SumQnt(rows) == IF rows = <<>> THEN 0 ELSE Head(rows).QNT + SumQnt(Tail(rows))

\* dataframe.groupby('HDRTAG2'): the rows of one key, in table order
OrderData(dataframe, key) == SelectSeq(dataframe, LAMBDA r : r.HDRTAG2 = key)
OrderKeys(dataframe) == {dataframe[i].HDRTAG2 : i \in 1..Len(dataframe)}

\* the cells to_excel writes for one row of an order sheet: the columns of a
\* confirmation file without PODRCD, REFUSED and CODEPST, the order key
\* first, the quantity fifth, the order and shipment dates eighth and ninth
OrderSheetHeader ==
    <<Text("HDRTAG2"), Text("FIRM"), Text("CODEART"), Text("NAME"), Text("QNT"),
      Text("UNIT"), Text("GDATE"), Text("HDRTAG1"), Text("HDRTAG3")>>
OrderSheetRow(r) ==
    <<r.HDRTAG2, Text("firm"), r.CODEART, Text("name"), Num(10 * r.QNT),
      Text("unit"), Text("gdate"), Text("date"), Text("shipment")>>

\* DataFrame.to_excel(index=False): the header row, then the rows
ToExcel(header, rows) == <<header>> \o rows

\* the grid of a sheet written twice keeps, under the second table, the rows
\* of the first that the second does not reach
Overlay(old, new) == new \o SubSeq(old, Len(new) + 1, Len(old))

\* to_excel(writer, sheet_name=title): a sheet of that title already in the
\* writer is written into, otherwise a new sheet is added
WriteSheet(book, title, grid) ==
    IF \E i \in 1..Len(book) : book[i].title = title
    THEN [i \in 1..Len(book) |->
            IF book[i].title = title THEN Worksheet(title, Overlay(book[i].grid, grid))
            ELSE book[i]]
    ELSE Append(book, Worksheet(title, grid))

\* lines 373-378: the pivot by (HDRTAG2, HDRTAG1)
AllOrders(dataframe) ==
    LET ks == SortedKeys(OrderKeys(dataframe))
    IN  [i \in 1..Len(ks) |->
            <<ks[i], Text("date"), Num(10 * SumQnt(OrderData(dataframe, ks[i])))>>]

\* lines 381-386: the pivot by (FIRM, CODEART, NAME, GDATE)
PivotTable(dataframe) ==
    LET cs == SortedKeys({dataframe[i].CODEART : i \in 1..Len(dataframe)})
    IN  [i \in 1..Len(cs) |->
            <<Text("firm"), cs[i], Text("name"), Text("gdate"),
              Num(10 * SumQnt(SelectSeq(dataframe, LAMBDA r : r.CODEART = cs[i])))>>]

\* lines 389-390
Assembly(dataframe) ==
    [i \in 1..Len(dataframe) |->
        <<dataframe[i].HDRTAG2, Text("firm"), dataframe[i].CODEART, Text("name"),
          Num(10 * dataframe[i].QNT)>>]

RECURSIVE WriteOrders(_, _, _)
WriteOrders(book, dataframe, keys) ==
    IF keys = <<>> THEN book
    ELSE LET order_data == OrderData(dataframe, Head(keys))
             grid == ToExcel(OrderSheetHeader,
                             [i \in 1..Len(order_data) |-> OrderSheetRow(order_data[i])])
         IN  WriteOrders(WriteSheet(book, OrderSheetName(Head(keys)), grid),
                         dataframe, Tail(keys))

\* save_orders_to_excel: the workbook saved
save_orders_to_excel(dataframe) ==
    LET first ==
          << Worksheet(<<"Spisok zakazov">>,
                       ToExcel(<<Text("HDRTAG2"), Text("HDRTAG1"), Text("QNT")>>,
                               AllOrders(dataframe))),
             Worksheet(<<"Svodnaya tablitsa">>,
                       ToExcel(<<Text("FIRM"), Text("CODEART"), Text("NAME"), Text("GDATE"),
                                 Text("QNT")>>, PivotTable(dataframe))),
             Worksheet(<<"List podbora">>,
                       ToExcel(<<Text("HDRTAG2"), Text("FIRM"), Text("CODEART"), Text("NAME"),
                                 Text("QNT")>>, Assembly(dataframe))) >>
    IN  WriteOrders(first, dataframe, SortedKeys(OrderKeys(dataframe)))

\* format_recap_sheet, format_merge_table_sheet, format_assembly_sheet: the
\* title row
TitleSheet(sheet, title) ==
    Worksheet(sheet.title, SetCell(InsertRows(sheet.grid, 1), 1, 1, Text(title)))

\* stat_order of lines 556-566
StatOrder(grid) == [i \in 1..(MaxRow(grid) - 7) |-> CellValue(grid, i + 7, 4)]

RECURSIVE SumCells(_)
SumCells(cells) ==
    IF cells = <<>> THEN 0 ELSE IntOfNum(Head(cells).tenths) + SumCells(Tail(cells))

\* format_orders_sheet
format_orders_sheet(sheet) ==
    LET g0 == InsertRows(sheet.grid, 6)
        g1 == SetCell(g0, 1, 2, Text("NOMER ZAKAZA"))
        g2 == SetCell(g1, 2, 2, Text("DATA ZAKAZA"))
        g3 == SetCell(g2, 3, 2, Text("DATA OTGRUZKI"))
        g4 == SetCell(g3, 4, 2, Text("STROK V ZAKAZE"))
        g5 == SetCell(g4, 5, 2, Text("SHTUK V ZAKAZE"))
        g6 == SetCell(g5, 1, 4, CellValue(g5, 8, 1))
        g7 == SetCell(g6, 2, 4, CellValue(g6, 8, 8))
        g8 == SetCell(g7, 3, 4, CellValue(g7, 8, 9))
        g9 == DeleteCols(DeleteCols(g8, 1, 1), 7, 2)
        stat_order == StatOrder(g9)
        g10 == SetCell(g9, 4, 3, Num(10 * Len(stat_order)))
    IN  Worksheet(sheet.title, SetCell(g10, 5, 3, Num(10 * SumCells(stat_order))))

\* format_report_sheets: the workbook saved again
format_report_sheets(book) ==
    [i \in 1..Len(book) |->
        CASE i = 1 -> TitleSheet(book[i], "recap")
          [] i = 2 -> TitleSheet(book[i], "SVODNAYA TABLITSA K recap")
          [] i = 3 -> TitleSheet(book[i], "LIST PODBORA K recap")
          [] OTHER -> format_orders_sheet(book[i])]

\* the order keys the model draws tables from: the order numbers 1 and 2 and
\* the order number 1 as a text
RecapKeys == {Num(10), Num(20), Str(<<"1">>)}
RecapRows == {ConfRow(k, c, q) : k \in RecapKeys, c \in {Str(<<"7">>), Str(<<"8">>)}, q \in 1..2}

RecapStart(tables, pc0) ==
    /\ recap_df \in tables
    /\ work_book = <<>>
    /\ recapPc = pc0

\* a merged table has a row at least (main of an empty one: see SaveRecap)
RecapInit == RecapStart(SeqsUpTo(RecapRows, MaxRows) \ {<<>>}, "save")

RecapIdle == RecapStart({<<>>}, "idle")

SaveOrdersToExcel ==
    /\ recapPc = "save"
    /\ UNCHANGED notRecap
    /\ work_book' = save_orders_to_excel(recap_df)
    /\ recapPc' = "format"
    /\ UNCHANGED recap_df

FormatReportSheets ==
    /\ recapPc = "format"
    /\ UNCHANGED notRecap
    /\ work_book' = format_report_sheets(work_book)
    /\ recapPc' = "done"
    /\ UNCHANGED recap_df

RecapNext == SaveOrdersToExcel \/ FormatReportSheets

(***************************************************************************)
(* stocks.py: update_stocks; prices.py: update_prices.  What                *)
(* send_request_with_retries returns for a batch is the body of the answer  *)
(* or None, as modelled above.                                              *)
(***************************************************************************)
\* prepare_batches(offers) of the module called
prepare_batches(kind, os, size) ==
    IF kind = "stock" THEN stock_prepare_batches(os, size) ELSE price_prepare_batches(os, size)

UpdStart(kinds, stockLists, priceLists, sizes, pc0) ==
    /\ upd_kind \in kinds
    /\ upd_offers \in IF upd_kind = "stock" THEN stockLists ELSE priceLists
    /\ upd_size \in sizes
    /\ upd_batches = <<>>
    /\ upd_idx = 1
    /\ upd_sent = <<>>
    /\ upd_responses = <<>>
    /\ upd_pauses = 0
    /\ updPc = pc0

UpdInit ==
    UpdStart({"stock", "price"}, SeqsUpTo(StockOffers, MaxBatch), SeqsUpTo(PriceOffers, MaxBatch),
             1..2, "call")

UpdIdle == UpdStart({"none"}, {<<>>}, {<<>>}, {0}, "idle")

\* lines 161-165 of stocks.py, 174-178 of prices.py
PrepareBatches ==
    /\ updPc = "call"
    /\ UNCHANGED notUpd
    /\ upd_batches' = prepare_batches(upd_kind, upd_offers, upd_size)
    /\ updPc' = IF upd_batches' = <<>> THEN "done" ELSE "loop"
    /\ UNCHANGED <<upd_kind, upd_offers, upd_size, upd_idx, upd_sent, upd_responses,
                   upd_pauses>>

\* a loop that gives up at the first batch whose send returned None
AfterBatchStopOnNone(response) ==
    /\ upd_responses' = Append(upd_responses, response)
    /\ upd_pauses' = upd_pauses + 1
    /\ upd_idx' = upd_idx + 1
    /\ updPc' = IF upd_idx = Len(upd_batches) \/ response = SendNone THEN "done" ELSE "loop"

\* lines 175-176 of stocks.py, 187-188 of prices.py, and the return after the
\* last batch
AfterBatch(response) ==
    /\ upd_responses' = Append(upd_responses, response)
    /\ upd_pauses' = upd_pauses + 1
    /\ upd_idx' = upd_idx + 1
    /\ updPc' = IF upd_idx = Len(upd_batches) THEN "done" ELSE "loop"

\* one iteration of the for loop
SendBatch(response) ==
    /\ updPc = "loop"
    /\ UNCHANGED notUpd
    /\ upd_sent' = Append(upd_sent, upd_batches[upd_idx])
    /\ AfterBatch(response)
    /\ UNCHANGED <<upd_kind, upd_offers, upd_size, upd_batches>>

UpdNext ==
    \/ PrepareBatches
    \/ \E response \in {SendBody, SendNone} : SendBatch(response)

(***************************************************************************)
(* prices.py: start_exchange_price.                                         *)
(***************************************************************************)
\* line 197: prepare_offers_data returned, update_prices is called with its
\* offers; an exception of prepare_offers_data leaves start_exchange_price
\* before that
CallUpdatePrices ==
    /\ pricesPc = "done"
    /\ updPc = "wait"
    /\ UNCHANGED notUpd
    /\ upd_offers' = price_offers
    /\ updPc' = "call"
    /\ UNCHANGED <<upd_kind, upd_size, upd_batches, upd_idx, upd_sent, upd_responses,
                   upd_pauses>>

StartExchangePriceNext == PricesNext \/ CallUpdatePrices \/ UpdNext

(***************************************************************************)
(* orders.py: get_orders, extract_order_data and main.  A fetched order is  *)
(* its id and the number of entries of delivery.shipments (0 also when the  *)
(* order has no delivery at all).  An answer to a GET is a page (status     *)
(* 200: its orders and its paging.nextPageToken, NoToken when there is      *)
(* none), another status, or an exception of the request or of the parsing. *)
(***************************************************************************)
FetchedOrder(id, shipments) == [id |-> id, shipments |-> shipments]
PageAnswer(os, token) == [kind |-> "page", status_code |-> 200, orders |-> os, token |-> token]
StatusAnswer(code) == [kind |-> "status", status_code |-> code, orders |-> <<>>, token |-> ""]
GetException == [kind |-> "exception", status_code |-> 0, orders |-> <<>>, token |-> ""]

NoToken == "None"
\* 'not next_page_token': None and the empty text
Falsy(token) == token \in {NoToken, ""}

FetchedOrders == {FetchedOrder(1, 1), FetchedOrder(2, 0)}
PageTokens == {NoToken, "", "t1"}
GetAnswers ==
    {PageAnswer(os, t) : os \in SeqsUpTo(FetchedOrders, 1), t \in PageTokens}
        \cup {StatusAnswer(500), StatusAnswer(404), GetException}

\* the answers after which get_orders asks for no further page
LastAnswer(r) == r.kind # "page" \/ Falsy(r.token)

OrdsStart(pc0) ==
    /\ page_token = ""
    /\ get_log = <<>>
    /\ all_orders = <<>>
    /\ get_result = <<>>
    /\ data_orders = <<>>
    /\ export_calls = <<>>
    /\ ord_error = "none"
    /\ ordPc = pc0

OrdsInit == OrdsStart("get")

OrdsIdle == OrdsStart("idle")

\* line 66
GetReturn(list) ==
    /\ get_result' = list
    /\ ordPc' = "extract"

\* a stop that throws away what was accumulated
StopEmpty == GetReturn(<<>>) /\ UNCHANGED <<all_orders, page_token>>

\* lines 43-46 and 62-64: break, then the return of line 66
Stop == GetReturn(all_orders) /\ UNCHANGED <<all_orders, page_token>>

\* one pass of the while loop, lines 39-64; the model asks for at most
\* MaxPages pages
GetPage(r) ==
    /\ ordPc = "get"
    /\ UNCHANGED notOrds
    /\ Len(get_log) + 1 = MaxPages => LastAnswer(r)
    /\ get_log' = Append(get_log, r)
    /\ UNCHANGED <<data_orders, export_calls, ord_error>>
    /\ IF r.kind # "page"
       THEN Stop
       ELSE /\ all_orders' = all_orders \o r.orders
            /\ IF Falsy(r.token)
               THEN GetReturn(all_orders') /\ UNCHANGED page_token
               ELSE page_token' = r.token /\ UNCHANGED <<get_result, ordPc>>

\* extract_order_data: shipments[0] of an empty list raises IndexError
ExtractOrderData ==
    /\ ordPc = "extract"
    /\ UNCHANGED notOrds
    /\ UNCHANGED <<page_token, get_log, all_orders, get_result, export_calls>>
    /\ IF \E k \in 1..Len(get_result) : get_result[k].shipments = 0
       THEN ordPc' = "raised" /\ ord_error' = "IndexError" /\ UNCHANGED data_orders
       ELSE /\ data_orders' = [k \in 1..Len(get_result) |-> [order_id |-> get_result[k].id]]
            /\ ordPc' = "export"
            /\ UNCHANGED ord_error

\* line 204
ExportCall ==
    /\ ordPc = "export"
    /\ UNCHANGED notOrds
    /\ export_calls' = Append(export_calls, get_result)
    /\ ordPc' = "done"
    /\ UNCHANGED <<page_token, get_log, all_orders, get_result, data_orders, ord_error>>

OrdsNext ==
    \/ \E r \in GetAnswers : GetPage(r)
    \/ ExtractOrderData
    \/ ExportCall

(***************************************************************************)
(* orders.py: upload_file_to_ftp, one action per FTP command.  A command    *)
(* succeeds or raises: error_perm (a 5xx reply), error_temp (standing for   *)
(* the other ftplib.Error classes), OSError or EOFError.                    *)
(***************************************************************************)
FtpOutcomes == {"ok", "error_perm", "error_temp", "OSError", "EOFError"}
FtpErrors == {"error_perm", "error_temp"}
\* ftplib.all_errors
all_errors == FtpErrors \cup {"OSError", "EOFError"}

remote_directory == "/YANDEX_orders/store/Orders/"

FtpCommand(cmd, o) == [cmd |-> cmd, outcome |-> o]

UplStart(locals, pc0) ==
    /\ upl_cmds = <<>>
    /\ upl_logged = FALSE
    /\ upl_cwd = "/"
    /\ upl_pending = "none"
    /\ upl_raised = "none"
    /\ upl_local \in locals
    /\ uplPc = pc0

UplInit == UplStart(BOOLEAN, "connect")

UplIdle == UplStart({FALSE}, "idle")

\* the outer except of lines 195-197, then the end of the function
OuterExcept(e) ==
    IF e = "none" \/ e \in all_errors
    THEN uplPc' = "returned" /\ upl_raised' = "none"
    ELSE uplPc' = "raised" /\ upl_raised' = e

\* the with block is left: with e travelling when e is an exception, by a
\* return or by its end when e is "none"; FTP.__exit__ sends QUIT next
LeaveWith(e) ==
    /\ uplPc' = "quit"
    /\ upl_pending' = e
    /\ UNCHANGED upl_raised

\* an except ftplib.error_perm clause that returns; other exceptions go on
ReturnOnPerm(o) == LeaveWith(IF o = "error_perm" THEN "none" ELSE o)

\* line 148: ftplib.FTP(server) connects; a failure is not inside the with
FtpConnect(o) ==
    /\ uplPc = "connect"
    /\ UNCHANGED notUpl
    /\ upl_cmds' = Append(upl_cmds, FtpCommand("CONNECT", o))
    /\ UNCHANGED <<upl_logged, upl_cwd, upl_local>>
    /\ IF o = "ok"
       THEN uplPc' = "login" /\ UNCHANGED <<upl_pending, upl_raised>>
       ELSE OuterExcept(o) /\ UNCHANGED upl_pending

\* lines 149-156
Login(o) ==
    /\ uplPc = "login"
    /\ UNCHANGED notUpl
    /\ upl_cmds' = Append(upl_cmds, FtpCommand("LOGIN", o))
    /\ UNCHANGED <<upl_cwd, upl_local>>
    /\ IF o = "ok"
       THEN upl_logged' = TRUE /\ uplPc' = "cwd" /\ UNCHANGED <<upl_pending, upl_raised>>
       ELSE ReturnOnPerm(o) /\ UNCHANGED upl_logged

\* lines 162-166: an error_perm leads to the creation of the directory
Cwd(o) ==
    /\ uplPc = "cwd"
    /\ UNCHANGED notUpl
    /\ upl_cmds' = Append(upl_cmds, FtpCommand("CWD", o))
    /\ UNCHANGED <<upl_logged, upl_local>>
    /\ IF o = "ok"
       THEN upl_cwd' = remote_directory /\ uplPc' = "stor" /\ UNCHANGED <<upl_pending, upl_raised>>
       ELSE IF o = "error_perm"
            THEN uplPc' = "mkd" /\ UNCHANGED <<upl_cwd, upl_pending, upl_raised>>
            ELSE LeaveWith(o) /\ UNCHANGED upl_cwd

\* a failed creation that goes on to the upload
AfterMkdGoOn(o) ==
    IF o \in {"ok", "error_perm"}
    THEN uplPc' = (IF o = "ok" THEN "cwd_made" ELSE "stor") /\ UNCHANGED <<upl_pending, upl_raised>>
    ELSE LeaveWith(o)

\* lines 170-178, after ftp.mkd
AfterMkd(o) ==
    IF o = "ok"
    THEN uplPc' = "cwd_made" /\ UNCHANGED <<upl_pending, upl_raised>>
    ELSE ReturnOnPerm(o)

\* line 171
Mkd(o) ==
    /\ uplPc = "mkd"
    /\ UNCHANGED notUpl
    /\ upl_cmds' = Append(upl_cmds, FtpCommand("MKD", o))
    /\ UNCHANGED <<upl_logged, upl_cwd, upl_local>>
    /\ AfterMkd(o)

\* line 172, with the except of lines 175-178
CwdMade(o) ==
    /\ uplPc = "cwd_made"
    /\ UNCHANGED notUpl
    /\ upl_cmds' = Append(upl_cmds, FtpCommand("CWD", o))
    /\ UNCHANGED <<upl_logged, upl_local>>
    /\ IF o = "ok"
       THEN upl_cwd' = remote_directory /\ uplPc' = "stor" /\ UNCHANGED <<upl_pending, upl_raised>>
       ELSE ReturnOnPerm(o) /\ UNCHANGED upl_cwd

\* lines 181-188: open raises OSError before any command is sent; every
\* failure is caught by the except ftplib.all_errors of line 186
Stor(o) ==
    /\ uplPc = "stor"
    /\ UNCHANGED notUpl
    /\ IF upl_local
       THEN upl_cmds' = Append(upl_cmds, FtpCommand("STOR", o))
       ELSE o = "OSError" /\ UNCHANGED upl_cmds
    /\ UNCHANGED <<upl_logged, upl_cwd, upl_local>>
    /\ LeaveWith("none")

\* FTP.__exit__: QUIT, whose OSError and EOFError are swallowed and whose
\* ftplib.Error replaces what was travelling; then lines 195-197
Quit(o) ==
    /\ uplPc = "quit"
    /\ UNCHANGED notUpl
    /\ upl_cmds' = Append(upl_cmds, FtpCommand("QUIT", o))
    /\ UNCHANGED <<upl_logged, upl_cwd, upl_local, upl_pending>>
    /\ OuterExcept(IF o \in FtpErrors THEN o ELSE upl_pending)

UplNext ==
    \E o \in FtpOutcomes :
        \/ FtpConnect(o)
        \/ Login(o)
        \/ Cwd(o)
        \/ Mkd(o)
        \/ CwdMade(o)
        \/ Stor(o)
        \/ Quit(o)

(***************************************************************************)
(* The three paginated fetches, without a cap on the number of requests:    *)
(* get_orders (orders.py), get_all_campaign_offers and save_to_csv_products *)
(* (products.py).  Of the answers only what steers the loop is kept: the    *)
(* status, whether the body has its containers, and the nextPageToken.      *)
(***************************************************************************)
PagFetches == {"get_orders", "get_all_campaign_offers", "save_to_csv_products"}
NextTokens == {"t1", "t2", "t3"}

\* a 200 answer: body "full" has the containers the function reads, body
\* "bare" is a JSON object without them
PagPage(body, token) == [kind |-> "page", body |-> body, token |-> token]
PagStatus == [kind |-> "status", body |-> "bare", token |-> NoToken]
PagException == [kind |-> "exception", body |-> "bare", token |-> NoToken]
PagAnswers ==
    {PagPage(b, t) : b \in {"full", "bare"}, t \in NextTokens \cup {NoToken, ""}}
        \cup {PagStatus, PagException}

\* what one pass of the loop makes of an answer: "next" to go on with the
\* token, or the reason to break
PassOutcome(fetch, r) ==
    IF r.kind = "status" THEN "status"
    ELSE IF r.kind = "exception" THEN "exception"
    ELSE IF r.body = "bare"
         THEN \* data['result'] raises KeyError; the .get chains yield None
              IF fetch = "get_all_campaign_offers" THEN "exception" ELSE "last_page"
         ELSE IF Falsy(r.token) THEN "last_page" ELSE "next"

PagStart(fetches, pc0) ==
    /\ pag_fetch \in fetches
    /\ pag_token = ""
    /\ pag_seen = {}
    /\ pag_end = "none"
    /\ pagPc = pc0

PagInit == PagStart(PagFetches, "request")

PagIdle == PagStart({"get_orders"}, "idle")

\* one pass of 'while True'
PagRequest(r) ==
    /\ pagPc = "request"
    /\ UNCHANGED notPag
    /\ UNCHANGED pag_fetch
    /\ LET out == PassOutcome(pag_fetch, r)
       IN  IF out = "next"
           THEN /\ pag_token' = r.token
                /\ pag_seen' = pag_seen \cup {r.token}
                /\ UNCHANGED <<pag_end, pagPc>>
           ELSE /\ pag_end' = out
                /\ pagPc' = "returned"
                /\ UNCHANGED <<pag_token, pag_seen>>

PagNext == \E r \in PagAnswers : PagRequest(r)

(***************************************************************************)
(* confirmations.py: download_file.  An attempt completes ("ok"), fails     *)
(* before the file is opened (Timeout, HTTPError of raise_for_status,       *)
(* ConnectionError), fails while the body is streamed ("broken": a          *)
(* ChunkedEncodingError after part of the file was written), or open        *)
(* raises OSError.                                                          *)
(***************************************************************************)
DownloadOutcomes == {"ok", "Timeout", "HTTPError", "ConnectionError", "broken", "OSError"}
\* requests.exceptions.Timeout and the other requests.RequestException
RequestExceptions == {"Timeout", "HTTPError", "ConnectionError", "broken"}

\* retry_delay (the default)
DownloadDelay == 5

LabelPath == "labels_1.pdf"

DlStart(retries, pc0) ==
    /\ dl_retries \in retries
    /\ dl_attempt = 0
    /\ dl_gets = <<>>
    /\ dl_sleeps = <<>>
    /\ dl_file = "absent"
    /\ dl_result = ""
    /\ dl_error = "none"
    /\ dlPc = pc0

DlInit == DlStart(0..MaxRetries, "makedirs")

DlIdle == DlStart({0}, "idle")

DlReturn(v) ==
    /\ dlPc' = "returned"
    /\ dl_result' = v
    /\ UNCHANGED dl_error

DlRaise(e) ==
    /\ dlPc' = "raised"
    /\ dl_error' = e
    /\ UNCHANGED dl_result

\* line 310, then the for statement: no pass when download_retries < 1
MakeDirs(ok) ==
    /\ dlPc = "makedirs"
    /\ UNCHANGED notDl
    /\ UNCHANGED <<dl_retries, dl_attempt, dl_gets, dl_sleeps, dl_file>>
    /\ IF ~ok THEN DlRaise("OSError")
       ELSE IF dl_retries < 1 THEN DlReturn("None")
       ELSE dlPc' = "get" /\ UNCHANGED <<dl_result, dl_error>>

\* a wait after every failed attempt, the last included
AfterFailureSleepAlways(n) ==
    /\ dl_sleeps' = Append(dl_sleeps, DownloadDelay)
    /\ IF n < dl_retries
       THEN UNCHANGED <<dlPc, dl_result, dl_error>>
       ELSE DlReturn("None")

\* lines 327-331, after an except clause
AfterFailure(n) ==
    IF n < dl_retries
    THEN dl_sleeps' = Append(dl_sleeps, DownloadDelay) /\ UNCHANGED <<dlPc, dl_result, dl_error>>
    ELSE DlReturn("None") /\ UNCHANGED dl_sleeps

\* one pass of the for loop, lines 312-328
DownloadAttempt(o) ==
    /\ dlPc = "get"
    /\ UNCHANGED notDl
    /\ dl_attempt' = dl_attempt + 1
    /\ dl_gets' = Append(dl_gets, o)
    /\ UNCHANGED dl_retries
    /\ dl_file' = CASE o = "ok" -> "complete"
                    [] o = "broken" -> "partial"
                    [] OTHER -> dl_file
    /\ IF o = "ok" THEN DlReturn(LabelPath) /\ UNCHANGED dl_sleeps
       ELSE IF o \in RequestExceptions THEN AfterFailure(dl_attempt')
       ELSE DlRaise(o) /\ UNCHANGED dl_sleeps

DlNext ==
    \/ \E ok \in BOOLEAN : MakeDirs(ok)
    \/ \E o \in DownloadOutcomes : DownloadAttempt(o)

(***************************************************************************)
(* confirmations.py: two runs of process_confirmation_files that share      *)
(* source_dir and processed_dir.  Nothing locks the directories: a run      *)
(* lists the inbox once (os.walk), and between its load of a file and its   *)
(* shutil.move of that file the other run may take any of its own steps.    *)
(***************************************************************************)
Runs == {1, 2}

SharedInbox ==
    { File("", <<"1">> \o DotXls, Sheet(<<11>>)),
      File("", <<"3">> \o DotXls, Sheet(<<13>>)) }

ConcStart(modes, inboxes, pc0) ==
    /\ c_mode \in modes
    /\ c_inbox \in inboxes
    /\ c_archive = {}
    /\ c_pc = [p \in Runs |-> pc0]
    /\ c_walk = [p \in Runs |-> {}]
    /\ c_cur = [p \in Runs |-> <<>>]
    /\ c_dfs = [p \in Runs |-> <<>>]
    /\ c_loaded = [p \in Runs |-> {}]
    /\ c_returned = [p \in Runs |-> <<>>]

ConcInit == ConcStart({"sequential", "concurrent"}, SUBSET SharedInbox \ {{}}, "start")

ConcIdle == ConcStart({"sequential"}, {{}}, "idle")

\* lines 233-236: the call, and the listing os.walk takes of source_dir
ConcWalk(p) ==
    /\ c_pc[p] = "start"
    /\ UNCHANGED notConc
    /\ (c_mode = "sequential" /\ p = 2) => c_pc[1] = "done"
    /\ c_walk' = [c_walk EXCEPT ![p] = c_inbox]
    /\ c_pc' = [c_pc EXCEPT ![p] = "walk"]
    /\ UNCHANGED <<c_mode, c_inbox, c_archive, c_cur, c_dfs, c_loaded, c_returned>>

\* lines 237-251: the skip of a file found in processed_dir, else the load;
\* a file the other run has moved away meanwhile cannot be read, and
\* append_data_from_file returns None for it
ConcLoad(p, f) ==
    /\ c_pc[p] = "walk"
    /\ UNCHANGED notConc
    /\ f \in c_walk[p]
    /\ c_walk' = [c_walk EXCEPT ![p] = @ \ {f}]
    /\ UNCHANGED <<c_mode, c_inbox, c_archive, c_returned>>
    /\ IF \E a \in c_archive : a.name = f.name
       THEN UNCHANGED <<c_pc, c_cur, c_dfs, c_loaded>>
       ELSE /\ c_dfs' = [c_dfs EXCEPT ![p] =
                            Append(@, IF f \in c_inbox THEN append_data_from_file(f)
                                      ELSE append_data_from_file(File(f.dir, f.name, Corrupt)))]
            /\ c_loaded' = [c_loaded EXCEPT ![p] = IF f \in c_inbox THEN @ \cup {f.name} ELSE @]
            /\ c_cur' = [c_cur EXCEPT ![p] = f]
            /\ c_pc' = [c_pc EXCEPT ![p] = "move"]

\* lines 252-254: shutil.move, whose exception (the file is gone, or the move
\* failed) is logged
ConcMove(p, mv) ==
    /\ c_pc[p] = "move"
    /\ UNCHANGED notConc
    /\ IF c_cur[p] \in c_inbox /\ mv = "moved"
       THEN /\ c_inbox' = c_inbox \ {c_cur[p]}
            /\ c_archive' = {a \in c_archive : a.name # c_cur[p].name} \cup {Archived(c_cur[p])}
       ELSE UNCHANGED <<c_inbox, c_archive>>
    /\ c_cur' = [c_cur EXCEPT ![p] = <<>>]
    /\ c_pc' = [c_pc EXCEPT ![p] = "walk"]
    /\ UNCHANGED <<c_mode, c_walk, c_dfs, c_loaded, c_returned>>

\* lines 256-260
ConcEnd(p) ==
    /\ c_pc[p] = "walk"
    /\ UNCHANGED notConc
    /\ c_walk[p] = {}
    /\ c_pc' = [c_pc EXCEPT ![p] = "done"]
    /\ c_returned' = [c_returned EXCEPT ![p] = <<ReturnOfRun(c_dfs[p])>>]
    /\ UNCHANGED <<c_mode, c_inbox, c_archive, c_walk, c_cur, c_dfs, c_loaded>>

ConcNext ==
    \E p \in Runs :
        \/ ConcWalk(p)
        \/ \E f \in SharedInbox : ConcLoad(p, f)
        \/ \E mv \in {"moved", "failed"} : ConcMove(p, mv)
        \/ ConcEnd(p)

(***************************************************************************)
(* orders.py: a later run of export_orders_to_dbf_files on the same orders  *)
(* (they are fetched again as long as their status has not changed), with   *)
(* the output directory and the server as the run before left them.         *)
(***************************************************************************)
RexStart(n) == export_run = n

RexInit == RexStart(1)

RexIdle == RexStart(0)

\* a server that is reachable and refuses nothing
ReachableFtp == [connect |-> TRUE, login |-> TRUE, mkd |-> TRUE, stor |-> TRUE]

\* the next run: main of orders.py is started again
ExportAgain ==
    /\ exportPc \in {"done", "raised"}
    /\ export_orders # <<>>
    /\ export_run < MaxRuns
    /\ export_run' = export_run + 1
    /\ exportPc' = "loop"
    /\ cursor' = 1
    /\ skipped' = {}
    /\ UNCHANGED <<export_orders, dbf_dir, ftp_dir, ftp_orders>>
    /\ UNCHANGED <<statusVars, ingestVars, batchVars, pollVars, fetchVars, pricesVars,
                   stocksVars, sendVars, pullVars, copyVars, runVars, exchVars, recapVars,
                   updVars, ordsVars, uplVars, pagVars, dlVars, concVars>>

\* the first run meets any server, the later ones a reachable one
RexNext ==
    \/ export_run = 1 /\ ExportNext
    \/ ExportAgain
    \/ export_run > 1 /\ ExportOrder(ReachableFtp)

(***************************************************************************)
(* The specifications: one per part of the program.                        *)
(***************************************************************************)
\* update_order_statuses, from its call to its return
InitStatus ==
    StatusInit /\ IngestIdle /\ ExportIdle /\ BatchIdle /\ PollIdle /\ FetchIdle
    /\ PricesIdle /\ StocksIdle /\ SendIdle /\ PullIdle /\ CopyIdle /\ RunIdle
    /\ ExchIdle /\ RecapIdle /\ UpdIdle /\ OrdsIdle /\ UplIdle /\ PagIdle /\ DlIdle
    /\ ConcIdle /\ RexIdle
SpecStatus == InitStatus /\ [][StatusNext]_vars

\* extract_unique_orders on its own
InitDedup ==
    DedupInit /\ IngestIdle /\ ExportIdle /\ BatchIdle /\ PollIdle /\ FetchIdle
    /\ PricesIdle /\ StocksIdle /\ SendIdle /\ PullIdle /\ CopyIdle /\ RunIdle
    /\ ExchIdle /\ RecapIdle /\ UpdIdle /\ OrdsIdle /\ UplIdle /\ PagIdle /\ DlIdle
    /\ ConcIdle /\ RexIdle
SpecDedup == InitDedup /\ [][DedupNext]_vars

\* consecutive calls of process_confirmation_files
InitIngest ==
    IngestInit /\ StatusIdle /\ ExportIdle /\ BatchIdle /\ PollIdle /\ FetchIdle
    /\ PricesIdle /\ StocksIdle /\ SendIdle /\ PullIdle /\ CopyIdle /\ RunIdle
    /\ ExchIdle /\ RecapIdle /\ UpdIdle /\ OrdsIdle /\ UplIdle /\ PagIdle /\ DlIdle
    /\ ConcIdle /\ RexIdle
SpecIngest == InitIngest /\ [][IngestNext]_vars

\* export_orders_to_dbf_files
InitExport ==
    ExportInit /\ StatusIdle /\ IngestIdle /\ BatchIdle /\ PollIdle /\ FetchIdle
    /\ PricesIdle /\ StocksIdle /\ SendIdle /\ PullIdle /\ CopyIdle /\ RunIdle
    /\ ExchIdle /\ RecapIdle /\ UpdIdle /\ OrdsIdle /\ UplIdle /\ PagIdle /\ DlIdle
    /\ ConcIdle /\ RexIdle
SpecExport == InitExport /\ [][ExportNext]_vars

\* prepare_batches of stocks.py and of prices.py
InitBatch ==
    BatchInit /\ StatusIdle /\ IngestIdle /\ ExportIdle /\ PollIdle /\ FetchIdle
    /\ PricesIdle /\ StocksIdle /\ SendIdle /\ PullIdle /\ CopyIdle /\ RunIdle
    /\ ExchIdle /\ RecapIdle /\ UpdIdle /\ OrdsIdle /\ UplIdle /\ PagIdle /\ DlIdle
    /\ ConcIdle /\ RexIdle
SpecBatch == InitBatch /\ [][BatchNext]_vars

\* poll_report_status
InitPoll ==
    PollInit /\ StatusIdle /\ IngestIdle /\ ExportIdle /\ BatchIdle /\ FetchIdle
    /\ PricesIdle /\ StocksIdle /\ SendIdle /\ PullIdle /\ CopyIdle /\ RunIdle
    /\ ExchIdle /\ RecapIdle /\ UpdIdle /\ OrdsIdle /\ UplIdle /\ PagIdle /\ DlIdle
    /\ ConcIdle /\ RexIdle
SpecPoll == InitPoll /\ [][PollNext]_vars

\* download_from_ftp of confirmations.py into an empty inbox
InitFetch ==
    FetchInit /\ StatusIdle /\ IngestIdle /\ ExportIdle /\ BatchIdle /\ PollIdle
    /\ PricesIdle /\ StocksIdle /\ SendIdle /\ PullIdle /\ CopyIdle /\ RunIdle
    /\ ExchIdle /\ RecapIdle /\ UpdIdle /\ OrdsIdle /\ UplIdle /\ PagIdle /\ DlIdle
    /\ ConcIdle /\ RexIdle
SpecFetch == InitFetch /\ [][FetchNext]_vars

\* prepare_offers_data of prices.py
InitPrices ==
    PricesInit /\ StatusIdle /\ IngestIdle /\ ExportIdle /\ BatchIdle /\ PollIdle
    /\ FetchIdle /\ StocksIdle /\ SendIdle /\ PullIdle /\ CopyIdle /\ RunIdle
    /\ ExchIdle /\ RecapIdle /\ UpdIdle /\ OrdsIdle /\ UplIdle /\ PagIdle /\ DlIdle
    /\ ConcIdle /\ RexIdle
SpecPrices == InitPrices /\ [][PricesNext]_vars

\* prepare_offers_data of stocks.py
InitStocks ==
    StocksInit /\ StatusIdle /\ IngestIdle /\ ExportIdle /\ BatchIdle /\ PollIdle
    /\ FetchIdle /\ PricesIdle /\ SendIdle /\ PullIdle /\ CopyIdle /\ RunIdle
    /\ ExchIdle /\ RecapIdle /\ UpdIdle /\ OrdsIdle /\ UplIdle /\ PagIdle /\ DlIdle
    /\ ConcIdle /\ RexIdle
SpecStocks == InitStocks /\ [][StocksNext]_vars

\* send_request_with_retries of stocks.py and prices.py
InitSend ==
    SendInit /\ StatusIdle /\ IngestIdle /\ ExportIdle /\ BatchIdle /\ PollIdle
    /\ FetchIdle /\ PricesIdle /\ StocksIdle /\ PullIdle /\ CopyIdle /\ RunIdle
    /\ ExchIdle /\ RecapIdle /\ UpdIdle /\ OrdsIdle /\ UplIdle /\ PagIdle /\ DlIdle
    /\ ConcIdle /\ RexIdle
SpecSend == InitSend /\ [][SendNext]_vars

\* one call of each of the two FTP download routines
InitDownloads ==
    PullInit /\ FetchStart({<<"F", "1">>}, 0..MaxRetries, TwoFileRemotes, "connect")
    /\ StatusIdle /\ IngestIdle /\ ExportIdle /\ BatchIdle /\ PollIdle /\ PricesIdle
    /\ StocksIdle /\ SendIdle /\ CopyIdle /\ RunIdle /\ ExchIdle /\ RecapIdle /\ UpdIdle
    /\ OrdsIdle /\ UplIdle /\ PagIdle /\ DlIdle /\ ConcIdle /\ RexIdle
SpecDownloads == InitDownloads /\ [][PullNext \/ FetchNext]_vars

\* copy_file_with_timestamp of utils.py
InitCopy ==
    CopyInit /\ StatusIdle /\ IngestIdle /\ ExportIdle /\ BatchIdle /\ PollIdle
    /\ FetchIdle /\ PricesIdle /\ StocksIdle /\ SendIdle /\ PullIdle /\ RunIdle
    /\ ExchIdle /\ RecapIdle /\ UpdIdle /\ OrdsIdle /\ UplIdle /\ PagIdle /\ DlIdle
    /\ ConcIdle /\ RexIdle
SpecCopy == InitCopy /\ [][CopyNext]_vars

\* main on an inbox with or without a leftover file, an archive with or
\* without a file of the same name, and a remote directory with or without
\* new files
RunInboxes == SUBSET { File("", <<"1">> \o DotXls, Sheet(<<11>>)),
                       File("", <<"2">> \o DotXls, Corrupt) }

InitRun ==
    /\ RunInit /\ FetchStart({<<"F", "1">>}, 1..2, TwoFileRemotes, "connect")
    /\ IngestStart(RunInboxes, SUBSET ArchiveCandidates) /\ StatusIdle /\ ExportIdle
    /\ BatchIdle /\ PollIdle /\ PricesIdle /\ StocksIdle /\ SendIdle /\ PullIdle
    /\ CopyIdle /\ ExchIdle /\ RecapIdle /\ UpdIdle /\ OrdsIdle /\ UplIdle /\ PagIdle
    /\ DlIdle /\ ConcIdle /\ RexIdle
SpecRun == InitRun /\ [][RunNext]_vars

\* main invoked up to MaxRuns times, one invocation after the other
SpecRuns == InitRun /\ [][RunsNext]_vars

\* main of main.py: a download of at most two attempts, a stock sheet and a
\* price sheet of at most one row, with or without their columns, and an
\* inbound file that is there or not when the copy looks for it
ExchStockSheets ==
    {<<>>, <<StockRow(Str(<<"a", "1">>), Num(10))>>, <<StockRow(Str(<<"a", "1">>), Str(<<"x">>))>>}

ExchProductSheets == {s \in ProductSheets : Len(s) <= 1}

ExchMarkupSheets == {<<>>, <<MarkupRow("A", Dec(110)), MarkupRow(YandexMark, Dec(90))>>}

ExchSources ==
    {Source("missing", <<"s">> \o DotXls, <<>>), Source("file", <<"s">> \o DotXls, <<"c1">>)}

InitExchange ==
    /\ ExchInit /\ PullCall(1..2, {"absent", "old"})
    /\ StocksStart(ExchStockSheets, BOOLEAN, "load")
    /\ PricesStart(ExchProductSheets, ExchMarkupSheets, BOOLEAN, "load")
    /\ CopyStart(ExchSources, DestFolders, {<<"t", "2">>}, "check") /\ StatusIdle
    /\ IngestIdle /\ ExportIdle /\ BatchIdle /\ PollIdle /\ FetchIdle /\ SendIdle
    /\ RunIdle /\ RecapIdle /\ UpdIdle /\ OrdsIdle /\ UplIdle /\ PagIdle /\ DlIdle
    /\ ConcIdle /\ RexIdle
SpecExchange == InitExchange /\ [][ExchNext]_vars

\* save_orders_to_excel and format_report_sheets
InitRecap ==
    /\ RecapInit /\ StatusIdle /\ IngestIdle /\ ExportIdle /\ BatchIdle /\ PollIdle
    /\ FetchIdle /\ PricesIdle /\ StocksIdle /\ SendIdle /\ PullIdle /\ CopyIdle
    /\ RunIdle /\ ExchIdle /\ UpdIdle /\ OrdsIdle /\ UplIdle /\ PagIdle /\ DlIdle
    /\ ConcIdle /\ RexIdle
SpecRecap == InitRecap /\ [][RecapNext]_vars

\* update_stocks and update_prices
InitUpdate ==
    /\ UpdInit /\ StatusIdle /\ IngestIdle /\ ExportIdle /\ BatchIdle /\ PollIdle
    /\ FetchIdle /\ PricesIdle /\ StocksIdle /\ SendIdle /\ PullIdle /\ CopyIdle
    /\ RunIdle /\ ExchIdle /\ RecapIdle /\ OrdsIdle /\ UplIdle /\ PagIdle /\ DlIdle
    /\ ConcIdle /\ RexIdle
SpecUpdate == InitUpdate /\ [][UpdNext]_vars

\* start_exchange_price
InitStartExchangePrice ==
    /\ PricesStart(ProductSheets, SeqsUpTo(MarkupRows, 2), BOOLEAN, "load")
    /\ UpdStart({"price"}, {<<>>}, {<<>>}, 1..2, "wait") /\ StatusIdle /\ IngestIdle
    /\ ExportIdle /\ BatchIdle /\ PollIdle /\ FetchIdle /\ StocksIdle /\ SendIdle
    /\ PullIdle /\ CopyIdle /\ RunIdle /\ ExchIdle /\ RecapIdle /\ OrdsIdle /\ UplIdle
    /\ PagIdle /\ DlIdle /\ ConcIdle /\ RexIdle
SpecStartExchangePrice == InitStartExchangePrice /\ [][StartExchangePriceNext]_vars

\* main of orders.py
InitOrders ==
    /\ OrdsInit /\ StatusIdle /\ IngestIdle /\ ExportIdle /\ BatchIdle /\ PollIdle
    /\ FetchIdle /\ PricesIdle /\ StocksIdle /\ SendIdle /\ PullIdle /\ CopyIdle
    /\ RunIdle /\ ExchIdle /\ RecapIdle /\ UpdIdle /\ UplIdle /\ PagIdle /\ DlIdle
    /\ ConcIdle /\ RexIdle
SpecOrders == InitOrders /\ [][OrdsNext]_vars

\* one call of upload_file_to_ftp
InitUpload ==
    /\ UplInit /\ StatusIdle /\ IngestIdle /\ ExportIdle /\ BatchIdle /\ PollIdle
    /\ FetchIdle /\ PricesIdle /\ StocksIdle /\ SendIdle /\ PullIdle /\ CopyIdle
    /\ RunIdle /\ ExchIdle /\ RecapIdle /\ UpdIdle /\ OrdsIdle /\ PagIdle /\ DlIdle
    /\ ConcIdle /\ RexIdle
SpecUpload == InitUpload /\ [][UplNext]_vars

\* a paginated fetch against any server; the loop always takes its next pass
InitPagination ==
    /\ PagInit /\ StatusIdle /\ IngestIdle /\ ExportIdle /\ BatchIdle /\ PollIdle
    /\ FetchIdle /\ PricesIdle /\ StocksIdle /\ SendIdle /\ PullIdle /\ CopyIdle
    /\ RunIdle /\ ExchIdle /\ RecapIdle /\ UpdIdle /\ OrdsIdle /\ UplIdle /\ DlIdle
    /\ ConcIdle /\ RexIdle
SpecPagination == InitPagination /\ [][PagNext]_vars /\ WF_vars(PagNext)

\* one call of download_file
InitDownloadFile ==
    /\ DlInit /\ StatusIdle /\ IngestIdle /\ ExportIdle /\ BatchIdle /\ PollIdle
    /\ FetchIdle /\ PricesIdle /\ StocksIdle /\ SendIdle /\ PullIdle /\ CopyIdle
    /\ RunIdle /\ ExchIdle /\ RecapIdle /\ UpdIdle /\ OrdsIdle /\ UplIdle /\ PagIdle
    /\ ConcIdle /\ RexIdle
SpecDownloadFile == InitDownloadFile /\ [][DlNext]_vars

\* two runs of process_confirmation_files, one after the other or interleaved
InitConcurrent ==
    /\ ConcInit /\ StatusIdle /\ IngestIdle /\ ExportIdle /\ BatchIdle /\ PollIdle
    /\ FetchIdle /\ PricesIdle /\ StocksIdle /\ SendIdle /\ PullIdle /\ CopyIdle
    /\ RunIdle /\ ExchIdle /\ RecapIdle /\ UpdIdle /\ OrdsIdle /\ UplIdle /\ PagIdle
    /\ DlIdle /\ RexIdle
SpecConcurrent == InitConcurrent /\ [][ConcNext]_vars

\* runs of export_orders_to_dbf_files, one after the other
InitExportRuns ==
    /\ RexInit /\ ExportInit
    /\ StatusIdle /\ IngestIdle /\ BatchIdle /\ PollIdle /\ FetchIdle
    /\ PricesIdle /\ StocksIdle /\ SendIdle /\ PullIdle /\ CopyIdle /\ RunIdle /\ ExchIdle
    /\ RecapIdle /\ UpdIdle /\ OrdsIdle /\ UplIdle /\ PagIdle /\ DlIdle /\ ConcIdle
SpecExportRuns == InitExportRuns /\ [][RexNext]_vars

(***************************************************************************)
(* Claims about the status update, checked under SpecStatus.               *)
(***************************************************************************)
\* the waits retry_delay x 1, ..., retry_delay x n
Backoff(n) == [k \in 1..n |-> retry_delay * k]

\* C1: when every answer to send_status_update_request carries a status of
\* {429, 500, 502, 503, 504} and max_retries = N >= 1, the call makes exactly N
\* POSTs, waits retry_delay x k after the k-th failed attempt for every k < N,
\* does not wait after the N-th, and returns the failure signal.
C1_TransientExhaustsRetries ==
    (onlyTransient /\ statusPc \in {"post", "done"} /\ (statusPc = "done" => posts # <<>>)) =>
        /\ statusPc = "post" =>
              /\ Len(posts) = attempt - 1
              /\ sleeps = Backoff(attempt - 1)
        /\ statusPc = "done" =>
              /\ max_retries >= 1
              /\ Len(posts) = max_retries
              /\ sleeps = Backoff(max_retries - 1)
              /\ success = SentFalse

\* three 503 answers with max_retries = 3: three POSTs, two waits
C1_Witness ==
    /\ statusPc = "done"
    /\ onlyTransient
    /\ max_retries = 3
    /\ Len(posts) = 3
    /\ Len(sleeps) = 2
    /\ last = Answer(503)

\* C2: for a merged table without the HDRTAG2 column update_order_statuses
\* returns None, and no status-update POST is issued at any point of the call.
C2_MissingKeyColumnNoPost ==
    ("HDRTAG2" \notin df.columns /\ statusPc # "idle") =>
        /\ posts = <<>>
        /\ statusPc \in {"start", "done"}
        /\ statusPc = "done" => result = NoneVal

\* a table of two rows without the column has been through the call
C2_Witness ==
    /\ statusPc = "done"
    /\ "HDRTAG2" \notin df.columns
    /\ Len(df.index) = 2
    /\ max_retries = 3

\* C3: in every status-update payload sent the order ids are pairwise
\* distinct, whatever the cells of HDRTAG2 are.
C3_PayloadIdsDistinct ==
    \A n \in 1..Len(posts) :
        \A i, j \in 1..Len(posts[n]) : i # j => posts[n][i].id # posts[n][j].id

\* the ids of a POSTed payload, in order
IdsOf(payload) == [k \in 1..Len(payload) |-> payload[k].id]

\* C12: update_order_statuses returns the list of the order ids of the
\* payload it sent (same ids, same order) when the send succeeds, the empty
\* list with no POST issued when no row key converts to an integer, and the
\* absent result when validation or the send fails.
C12_ResultOfUpdate ==
    statusPc = "done" =>
        /\ success = SentTrue =>
             /\ posts # <<>>
             /\ result = ListVal(IdsOf(posts[Len(posts)]))
        /\ (validate_dataframe(df) /\ \A k \in 1..Len(df.HDRTAG2) : ~PyInt(df.HDRTAG2[k]).ok) =>
             /\ result = ListVal(<<>>)
             /\ posts = <<>>
        /\ (~validate_dataframe(df) \/ (orders # <<>> /\ success # SentTrue)) =>
             result = NoneVal

C12_Witness ==
    /\ statusPc = "done"
    /\ success = SentTrue
    /\ df.HDRTAG2 = <<Str(<<"x">>), Num(20)>>
    /\ Len(posts) = 2
    /\ result = ListVal(<<2>>)

(***************************************************************************)
(* Claims about extract_unique_orders, checked under SpecDedup.            *)
(***************************************************************************)
\* the position in the input of the k-th row returned (index labels start at 0)
InputPos(k) == unique_df.index[k] + 1

\* C4: extract_unique_orders returns exactly one row per distinct HDRTAG2
\* value of its input, that row being the first occurrence of the key, and the
\* rows returned keep their relative input order.
C4_FirstOccurrencePerKey ==
    (statusPc = "done" /\ "HDRTAG2" \in df.columns) =>
        /\ ~result.none
        /\ Len(unique_df.HDRTAG2) = Len(unique_df.index)
        /\ \A k \in 1..Len(unique_df.index) :
              /\ InputPos(k) \in 1..Len(df.HDRTAG2)
              /\ unique_df.HDRTAG2[k] = df.HDRTAG2[InputPos(k)]
              /\ \A j \in 1..(InputPos(k) - 1) : df.HDRTAG2[j] # df.HDRTAG2[InputPos(k)]
              /\ \A l \in 1..(k - 1) : InputPos(l) < InputPos(k)
        /\ \A i \in 1..Len(df.HDRTAG2) :
              Cardinality({k \in 1..Len(unique_df.index) :
                              unique_df.HDRTAG2[k] = df.HDRTAG2[i]}) = 1

\* rows keyed a, b, a: the rows labelled 0 and 1 are returned
C4_Witness ==
    /\ statusPc = "done"
    /\ Len(df.HDRTAG2) = 3
    /\ df.HDRTAG2[1] = df.HDRTAG2[3]
    /\ df.HDRTAG2[1] # df.HDRTAG2[2]
    /\ unique_df.index = <<0, 1>>

(***************************************************************************)
(* Claims about process_confirmation_files, checked under SpecIngest.      *)
(***************************************************************************)
\* C5: of two consecutive calls of process_confirmation_files on the same
\* inbox, no file being added in between, the second returns an empty table
\* and puts no file into the processed archive.
C5_SecondRunEmpty ==
    Len(returned) >= 2 =>
        /\ returned[2] = Table(<<>>)
        /\ archivedBy[2] = {}

(***************************************************************************)
(* Claims about export_orders_to_dbf_files, checked under SpecExport.      *)
(***************************************************************************)
\* the loop is at an order that has items and whose .dbf file exists
AtExportedOrder ==
    /\ exportPc = "loop"
    /\ export_orders[cursor].items # <<>>
    /\ \E f \in dbf_dir : f.name = export_orders[cursor].id

\* C6: export_orders_to_dbf_files is a no-op for an order whose
\* <order id>.dbf file already exists: the file is neither overwritten nor
\* duplicated, no rows are appended to it (and nothing is uploaded).
C6_ExistingFileUntouched ==
    [][AtExportedOrder =>
         /\ dbf_dir' = dbf_dir
         /\ ftp_orders' = ftp_orders
         /\ ftp_dir' = ftp_dir
         /\ exportPc' # "raised"]_vars

\* the second export of order 1 in one list, after the first wrote its file
C6_Witness ==
    /\ exportPc = "done"
    /\ Len(export_orders) = 2
    /\ export_orders[1].id = 1
    /\ export_orders[2] = Order(1, <<ItemB>>)
    /\ 1 \in skipped
    /\ DbfFile(1, <<DbfRow("A", 1, 1)>>) \in dbf_dir

(***************************************************************************)
(* Claims about prepare_batches, checked under SpecBatch.                  *)
(***************************************************************************)
\* the entries of the k-th batch returned, and the offer id of an entry
Entries(k) == IF batchKind = "stock" THEN batches[k].skus ELSE batches[k].offers
EntryId(e) == IF batchKind = "stock" THEN e.sku ELSE e.offerId

\* C7: prepare_batches (stock and price) splits n offers with batch size
\* b >= 1 into ceil(n/b) batches: every batch but the last holds exactly b
\* entries, the last between 1 and b, none is empty, an empty list gives no
\* batch, and the batches in order list the offer ids of the input in input
\* order, each exactly once.
C7_BatchesPartitionOffers ==
    batchPc = "done" =>
        LET n == Len(offers)
            b == batch_size
            m == Len(batches)
        IN  /\ m = (n + b - 1) \div b
            /\ n = 0 => batches = <<>>
            /\ \A k \in 1..m :
                  /\ Len(Entries(k)) \in 1..b
                  /\ k < m => Len(Entries(k)) = b
                  /\ \A j \in 1..Len(Entries(k)) :
                        /\ (k - 1) * b + j <= n
                        /\ EntryId(Entries(k)[j]) = offers[(k - 1) * b + j].offerId
            /\ m > 0 => (m - 1) * b + Len(Entries(m)) = n

\* five stock offers in batches of two: batches of 2, 2 and 1
C7_Witness ==
    /\ batchPc = "done"
    /\ batchKind = "stock"
    /\ Len(offers) = 5
    /\ batch_size = 2
    /\ Len(batches) = 3
    /\ Len(batches[3].skus) = 1

(***************************************************************************)
(* Claims about poll_report_status, checked under SpecPoll.                *)
(***************************************************************************)
\* the i-th answer is a report whose status is none of DONE, PROCESSING,
\* NEW, PENDING
FailedReport(i) ==
    /\ ~poll_answers[i].exc
    /\ poll_answers[i].status_code = 200
    /\ poll_answers[i].status \notin {"DONE", "PROCESSING", "NEW", "PENDING"}

\* C9: on the first poll answer whose status is none of DONE, PROCESSING,
\* NEW, PENDING, poll_report_status returns None at once: no wait follows that
\* answer and no further GET is issued, whatever is left of max_retries.
C9_FailedReportStopsPolling ==
    \A i \in 1..Len(poll_answers) :
        FailedReport(i) =>
            /\ pollPc = "done"
            /\ poll_result = PollNone
            /\ Len(poll_answers) = i
            /\ Len(poll_sleeps) = i - 1

\* ERROR answered to the second of three polls
C9_Witness ==
    /\ poll_max_retries = 3
    /\ Len(poll_answers) = 2
    /\ poll_answers[1].status = "PROCESSING"
    /\ FailedReport(2)
    /\ poll_answers[2].status = "ERROR"
    /\ pollPc = "done"

(***************************************************************************)
(* Claims about download_from_ftp (confirmations), checked under SpecFetch. *)
(***************************************************************************)
\* the name ends with .xls and, without that extension, with _<division id>
NamedForDivision(filename) ==
    /\ EndsWith(filename, DotXls)
    /\ EndsWith(SubSeq(filename, 1, Len(filename) - 4), <<"_">> \o division_id)

\* C8: download_from_ftp downloads a remote file if and only if its name
\* ends with .xls and its name without the extension ends with '_' followed
\* by the division id; a downloaded file is stored locally as the part of the
\* name before the last underscore plus '.xls'; every other remote file is
\* neither downloaded nor deleted.
C8_DownloadsDivisionFilesOnly ==
    (fetchPc = "done" /\ files # {}) =>
        \A filename \in files :
            /\ NamedForDivision(filename) <=> (\E r \in retrieved : r[1] = filename)
            /\ \A r \in retrieved :
                  r[1] = filename => r[2] = RSplitHead(filename, "_") \o DotXls
            /\ ~NamedForDivision(filename) => filename \notin deleted

(***************************************************************************)
(* Claims about prepare_offers_data (prices), checked under SpecPrices.    *)
(***************************************************************************)
\* the ceiling of n/d
CeilDiv(n, d) == (n + d - 1) \div d

\* the product row has at most one markup row, with a MarkUP, and the sheet
\* one YANDEX_old_price row, with a MarkUP
PlainlyMarked(p) ==
    /\ Len(Matches(p.Mark, df_markups)) <= 1
    /\ \A k \in 1..Len(Matches(p.Mark, df_markups)) : ~Matches(p.Mark, df_markups)[k].MarkUP.blank
    /\ Len(Matches(YandexMark, df_markups)) = 1
    /\ ~Matches(YandexMark, df_markups)[1].MarkUP.blank

\* C10: for each product row the offer has price = ceiling(Price x m) and
\* discountBase = ceiling(Price x m x y), computed exactly, m the MarkUP of
\* the markup row of the product's Mark, or 1.8 without such a row, and y the
\* MarkUP of the YANDEX_old_price row.
C10_PricesAreExactCeilings ==
    pricesPc = "done" =>
        \A i \in 1..Len(df_products), k \in 1..Len(price_offers) :
            LET p == df_products[i]
                o == price_offers[k]
                ms == Matches(p.Mark, df_markups)
                m == IF ms = <<>> THEN DefaultMarkUP ELSE ms[1].MarkUP.hundredths
                y == Matches(YandexMark, df_markups)[1].MarkUP.hundredths
            IN  (o.offerId = p.Artikul.s /\ PlainlyMarked(p)) =>
                    /\ o.price = CeilDiv(p.Price * m, 100)
                    /\ o.discountBase = CeilDiv(p.Price * m * y, 10000)

(***************************************************************************)
(* Claims about prepare_offers_data (stocks), checked under SpecStocks.    *)
(***************************************************************************)
\* the quantity cell is empty
NoQuantity(row) == row.Kolichestvo.t = "nan"

\* C11: the stock prepare_offers_data returns one record per row of the
\* sheet, in row order, with the row's article and quantity; a row whose
\* quantity cell is empty gets quantity 0, and the call fails only for a
\* missing column or a quantity cell that holds a value int() rejects.
C11_StockOfferPerRow ==
    /\ stocksPc = "done" =>
         /\ Len(stock_offers) = Len(stock_sheet)
         /\ \A k \in 1..Len(stock_sheet) :
              /\ stock_offers[k].offerId = AsTypeStr(stock_sheet[k].Artikul)
              /\ NoQuantity(stock_sheet[k]) => stock_offers[k].qua = 0
              /\ ~NoQuantity(stock_sheet[k]) =>
                    stock_offers[k].qua = PyInt(stock_sheet[k].Kolichestvo).v
    /\ stocksPc = "raised" =>
         \/ ~stock_has_columns
         \/ \E k \in 1..Len(stock_sheet) :
              ~NoQuantity(stock_sheet[k]) /\ ~PyInt(stock_sheet[k].Kolichestvo).ok

C11_Witness ==
    /\ stocksPc = "done"
    /\ Len(stock_sheet) = 2
    /\ NoQuantity(stock_sheet[1]) /\ stock_sheet[2].Kolichestvo = Num(25)
    /\ stock_offers = <<StockOffer(<<"a">>, 0), StockOffer(<<"n", "a", "n">>, 2)>>

(***************************************************************************)
(* Claims about send_request_with_retries, checked under SpecSend.         *)
(***************************************************************************)
\* the answer consumes an attempt: a network failure, a 5xx or a 429
Retryable(r) == r.exc \/ (500 <= r.status_code /\ r.status_code < 600) \/ r.status_code = 429

C15_MissingSourceRaises ==
    (copy_src.kind # "file" /\ copyPc # "check") =>
        /\ copyPc = "raised"
        /\ copy_error = "FileNotFoundError"
        /\ dest_dir = dest_before.exists
        /\ dest_files = dest_before.files

C15_Witness ==
    /\ copy_src.kind = "missing"
    /\ copyPc = "raised"
    /\ ~dest_before.exists /\ ~dest_dir

(***************************************************************************)
(* Claims about confirmations.main                                          *)
(***************************************************************************)
\* process_confirmation_files found no new file and returned the empty table
NoNewFile == returned = <<Table(<<>>)>> /\ all_dataframes = <<>>

\* C16: when process_confirmation_files finds no new file and returns the
\* empty table, main completes normally: no exception leaves it, it sends no
\* status-update request and it logs that there is nothing to update
C16_EmptyRunCompletes ==
    (NoNewFile /\ runPc \in {"done", "raised"}) =>
        (runPc = "done" /\ run_error = "" /\ run_posts = 0 /\ run_logged)

(***************************************************************************)
(* Claims about main of main.py, checked under SpecExchange.                *)
(***************************************************************************)
\* s is a prefix of t
IsPrefix(s, t) == Len(s) <= Len(t) /\ s = SubSeq(t, 1, Len(s))

\* C17: the steps of main happen in the order download, stock pipeline, price
\* pipeline, archive copy: the stock pipeline does not start before the
\* download has returned, the price pipeline not before the stock pipeline
\* has finished, and the inbound file is copied to the completed directory
\* only after both pipelines have finished without raising
C17_StepsInOrder ==
    /\ IsPrefix(exch_steps, ExchOrder)
    /\ stocksPc # "load" => pullPc = "done"
    /\ pricesPc # "load" => stocksPc = "done"
    /\ (copyPc # "check" \/ dest_files # dest_before.files \/ dest_dir # dest_before.exists)
          => (stocksPc = "done" /\ pricesPc = "done")

\* a run in which all four steps ran and the copy was made
C17_Witness ==
    /\ exchPc = "done"
    /\ exch_steps = ExchOrder
    /\ copy_result = DestName
    /\ \E f \in dest_files : f.name = DestName /\ f.chunks = copy_src.chunks

(***************************************************************************)
(* Claims about the recap workbook, checked under SpecRecap.                *)
(***************************************************************************)
\* the sheets of the workbook with that title
SheetsTitled(title) == {i \in 1..Len(work_book) : work_book[i].title = title}

\* the header cells of an order sheet tell the rows and the quantity of
\* that order
HeaderTellsOrder(key) ==
    /\ Cardinality(SheetsTitled(OrderSheetName(key))) = 1
    /\ \A i \in SheetsTitled(OrderSheetName(key)) :
          /\ i > 3
          /\ CellValue(work_book[i].grid, 4, 3) = Num(10 * Len(OrderData(recap_df, key)))
          /\ CellValue(work_book[i].grid, 5, 3) = Num(10 * SumQnt(OrderData(recap_df, key)))

\* C18: the recap workbook of a merged table with k distinct order keys has
\* 3 + k sheets, and on the sheet of each order the line-count header cell is
\* the number of rows of that order and the quantity-sum header cell the sum
\* of QNT over those rows
C18_RecapSheets ==
    recapPc = "done" =>
        /\ Len(work_book) = 3 + Cardinality(OrderKeys(recap_df))
        /\ \A key \in OrderKeys(recap_df) : HeaderTellsOrder(key)

\* the same for the tables whose order keys print differently
C18_WhenKeysPrintApart ==
    (recapPc = "done"
        /\ \A a, b \in OrderKeys(recap_df) : a # b => FormatKey(a) # FormatKey(b)) =>
        /\ Len(work_book) = 3 + Cardinality(OrderKeys(recap_df))
        /\ \A key \in OrderKeys(recap_df) : HeaderTellsOrder(key)

\* a workbook of two orders whose keys print apart: five sheets, true counts
C18_TwoOrdersTwoLines ==
    /\ recapPc = "done"
    /\ Cardinality(OrderKeys(recap_df)) = 2
    /\ Len(work_book) = 5
    /\ \A key \in OrderKeys(recap_df) : HeaderTellsOrder(key)

(***************************************************************************)
(* More claims about process_confirmation_files, checked under SpecIngest.  *)
(***************************************************************************)
\* C19: process_confirmation_files moves a file into the processed archive
\* only if that file was loaded into a table: a file whose load failed is
\* not in the archive and not among the names a call recorded as processed
C19_OnlyLoadedFilesArchived ==
    /\ \A a \in archive : a.data.readable
    /\ \A k \in 1..Len(archivedBy) :
          \A f \in InboxCandidates : f.name \in archivedBy[k] => f.data.readable
    /\ \A f \in InboxCandidates : f.name \in archivedNow => f.data.readable

\* C20: process_confirmation_files never raises and returns the
\* concatenation, in processing order, of the tables of the files it newly
\* ingested: the empty table when it ingested none, also when new files were
\* there and none could be loaded
C20_AlwaysReturnsTable ==
    (ingestPc = "idle" /\ returned # <<>>) =>
        /\ ~returned[Len(returned)].raised
        /\ returned[Len(returned)] = Table(ConcatRows(all_dataframes))

C22_FailedFileRetried ==
    fetchPc = "done" => \A n \in retr_failed : retr_count[n] >= 2

(***************************************************************************)
(* More claims about send_status_update_request, checked under SpecStatus.  *)
(***************************************************************************)
\* the answers after which send_status_update_request may POST again
Retried(r) == r = RequestException \/ (r.exc = "none" /\ r.status_code \in RetryStatuses)

\* C23: send_status_update_request issues at most max_retries POSTs whatever
\* mix of retryable statuses and network exceptions it meets, issues no POST
\* after a 200 answer, and after an answer with a status other than 200, 429,
\* 500, 502, 503, 504 returns failure at once, with no wait and no further
\* POST
C23_PostsWithinRetries ==
    /\ Len(posts) <= max_retries
    /\ statusPc = "post" => (last = NoAnswer \/ Retried(last))
    /\ last = Answer(200) => (statusPc = "done" /\ success = SentTrue)
    /\ (last.exc = "none" /\ last.status_code \notin RetryStatuses \cup {200}) =>
          /\ statusPc = "done"
          /\ success = SentFalse
          /\ Len(sleeps) = Len(posts) - 1

\* two answers that were retried and then a 404: three POSTs, two waits
C23_Witness ==
    /\ statusPc = "done"
    /\ max_retries = 3
    /\ Len(posts) = 3
    /\ Len(sleeps) = 2
    /\ last = Answer(404)
    /\ success = SentFalse

(***************************************************************************)
(* More claims about prepare_offers_data of prices.py, checked under        *)
(* SpecPrices.                                                              *)
(***************************************************************************)
\* C24: prepare_offers_data returns exactly one offer per row of the
\* products sheet, in row order, whatever the markup sheet is, a sheet with
\* the same Mark on several rows included
C24_OneOfferPerProductRow ==
    pricesPc = "done" =>
        /\ Len(price_offers) = Len(df_products)
        /\ \A i \in 1..Len(price_offers) : price_offers[i].offerId = PyStr(df_products[i].Artikul)

(***************************************************************************)
(* Claims about update_stocks and update_prices, checked under SpecUpdate.  *)
(***************************************************************************)
\* C28: update_stocks and update_prices send the batches one at a time in
\* list order and return one result per batch, at the batch's position: a
\* batch whose send returned None leaves a None entry and the batches after
\* it are still sent
C28_OneResultPerBatch ==
    /\ updPc \in {"loop", "done"} =>
          /\ upd_batches = prepare_batches(upd_kind, upd_offers, upd_size)
          /\ Len(upd_responses) = Len(upd_sent)
          /\ upd_sent = SubSeq(upd_batches, 1, Len(upd_sent))
          /\ upd_pauses = Len(upd_sent)
    /\ updPc = "done" => Len(upd_responses) = Len(upd_batches)

\* three batches, the first answered with None, the others sent all the same
C28_Witness ==
    /\ updPc = "done"
    /\ Len(upd_batches) = 3
    /\ upd_responses = <<SendNone, SendBody, SendBody>>
    /\ upd_sent = upd_batches

(***************************************************************************)
(* Claims about start_exchange_price, checked under SpecStartExchangePrice. *)
(***************************************************************************)
NoYandexRow == Matches(YandexMark, df_markups) = <<>>

\* C25: when the markup sheet has no row whose Mark is 'YANDEX_old_price',
\* prepare_offers_data ends with an exception raised to its caller, and
\* start_exchange_price sends no price-update batch
C25_MissingYandexRowRaises ==
    (NoYandexRow /\ pricesPc # "load") =>
        /\ pricesPc = "raised"
        /\ price_error \in {"ValueError", "IndexError"}
        /\ price_offers = <<>>
        /\ updPc = "wait"
        /\ upd_sent = <<>>

\* a products sheet with rows, both sheets with their columns, a markup
\* sheet without the row: IndexError
C25_Witness ==
    /\ NoYandexRow
    /\ has_columns
    /\ df_products # <<>>
    /\ df_markups # <<>>
    /\ pricesPc = "raised"
    /\ price_error = "IndexError"
    /\ updPc = "wait"

(***************************************************************************)
(* More claims about main of main.py, checked under SpecExchange.           *)
(***************************************************************************)
\* C26 as stated: when the stock input lacks a required column, no exception
\* leaves start_exchange_stock, and the price pipeline and the archive copy
\* still run
C26_MissingColumnAbsentReturn ==
    (~stock_has_columns /\ exchPc \in {"done", "raised"}) =>
        /\ stocksPc = "done"
        /\ pricesPc # "load"
        /\ copyPc # "check"

\* C26, amended: when the stock input lacks a required column,
\* prepare_offers_data raises ValueError, the exception leaves
\* start_exchange_stock and main, and neither the price pipeline nor the
\* archive copy runs
C26_MissingColumnRaises ==
    (~stock_has_columns /\ stocksPc # "load") =>
        /\ stocksPc = "raised"
        /\ stock_error = "ValueError"
        /\ stock_offers = <<>>
        /\ exchPc \in {"stock", "raised"}
        /\ exchPc = "raised" => exch_error = "ValueError"
        /\ exch_steps = <<"download", "stock">>
        /\ pricesPc = "load"
        /\ copyPc = "check"
        /\ dest_files = dest_before.files

\* main left by the ValueError of a stock sheet that has rows but not its
\* columns
C26_Witness ==
    /\ ~stock_has_columns
    /\ stock_sheet # <<>>
    /\ exchPc = "raised"
    /\ exch_error = "ValueError"
    /\ pricesPc = "load"
    /\ copyPc = "check"

(***************************************************************************)
(* Claims about get_orders and main of orders.py, checked under SpecOrders. *)
(***************************************************************************)
\* the orders of the pages among the first n answers, in order
RECURSIVE OrdersOfPages(_, _)
OrdersOfPages(log, n) ==
    IF n = 0 THEN <<>>
    ELSE OrdersOfPages(log, n - 1) \o (IF log[n].kind = "page" THEN log[n].orders ELSE <<>>)

\* C27: extract_order_data does not gate the export: main calls
\* export_orders_to_dbf_files on every fetched order list, a list with an
\* order without shipment included
C27_ExportAlwaysInvoked ==
    ordPc \in {"done", "raised"} => export_calls = <<get_result>>

\* C30: get_orders returns the orders of the pages answered with status 200,
\* in page order, up to and including the first page without nextPageToken;
\* at a page answered with another status, or at an exception, it stops and
\* returns what it has accumulated, as a plain list
C30_ReturnsAccumulatedOrders ==
    /\ \A n \in 1..(Len(get_log) - 1) : ~LastAnswer(get_log[n])
    /\ ordPc = "get" => \A n \in 1..Len(get_log) : ~LastAnswer(get_log[n])
    /\ ordPc \notin {"get", "idle"} =>
          /\ get_log # <<>>
          /\ LastAnswer(get_log[Len(get_log)])
          /\ get_result = OrdersOfPages(get_log, Len(get_log))

\* a page with an order and a token, then a 500: the order is returned
C30_Witness ==
    /\ ordPc # "get"
    /\ Len(get_log) = 2
    /\ get_log[1].kind = "page"
    /\ get_log[1].orders # <<>>
    /\ get_log[2] = StatusAnswer(500)
    /\ get_result = get_log[1].orders

(***************************************************************************)
(* Claims about upload_file_to_ftp, checked under SpecUpload.               *)
(***************************************************************************)
\* the commands sent so far include cmd with outcome o
Sent(cmd, o) == \E k \in 1..Len(upl_cmds) : upl_cmds[k] = FtpCommand(cmd, o)
StorIssued == \E o \in FtpOutcomes : Sent("STOR", o)

\* C29: STOR is sent only after the login succeeded and with the target
\* directory as current directory, entered directly or created then entered;
\* after an authentication failure or a failed creation of the directory no
\* STOR is sent; and no failure is raised to the caller
C29_StorOnlyInTargetDirectory ==
    /\ StorIssued =>
          /\ Sent("LOGIN", "ok")
          /\ upl_logged
          /\ upl_cwd = remote_directory
          /\ \E k \in 1..Len(upl_cmds) :
                /\ k > 1 /\ k < Len(upl_cmds)
                /\ upl_cmds[k] = FtpCommand("CWD", "ok")
                /\ upl_cmds[k + 1].cmd = "STOR"
                /\ \/ upl_cmds[k - 1] = FtpCommand("LOGIN", "ok")
                   \/ upl_cmds[k - 1] = FtpCommand("MKD", "ok")
    /\ (\E o \in FtpOutcomes \ {"ok"} : Sent("LOGIN", o) \/ Sent("MKD", o)) => ~StorIssued
    /\ upl_raised = "none"
    /\ uplPc # "raised"

\* the directory was missing, was created and entered, the file was stored
\* and the call returned
C29_Witness ==
    /\ uplPc = "returned"
    /\ Sent("MKD", "ok")
    /\ Sent("STOR", "ok")

\* ... and a call that ended at a refused creation of the directory
C29_WitnessRefused ==
    /\ uplPc = "returned"
    /\ Sent("MKD", "error_perm")
    /\ Sent("QUIT", "error_temp")

(***************************************************************************)
(* Claims about the paginated fetches, checked under SpecPagination.        *)
(***************************************************************************)
\* C31: every paginated fetch ends after finitely many requests, whatever
\* the server answers, a server that repeats its nextPageToken included
C31_EveryFetchTerminates == <>(pagPc = "returned")

(***************************************************************************)
(* Transient failures of poll_report_status, checked under SpecPoll.        *)
(***************************************************************************)
\* a connection error, or an answer with status 429 or 5xx
TransientPoll(r) == r.exc \/ r.status_code = 429 \/ r.status_code \in 500..599

\* C32: a transient failure of a poll (429, 5xx, connection error) is retried
\* within the max_retries budget: the polling ends without a file only after
\* max_retries GETs when the failures were transient
C32_TransientPollRetried ==
    \A i \in 1..Len(poll_answers) :
        (pollPc = "done" /\ TransientPoll(poll_answers[i]) /\ i < poll_max_retries)
            => Len(poll_answers) > i

(***************************************************************************)
(* Claims about download_file, checked under SpecDownloadFile.              *)
(***************************************************************************)
\* C33: download_file issues at most download_retries GETs; a timeout or
\* transport error is followed by another attempt while attempts remain,
\* with one fixed wait between consecutive attempts and none after the last;
\* it returns the path after the first attempt that completes and None after
\* download_retries failed attempts
C33_BoundedDownloadAttempts ==
    /\ Len(dl_gets) <= dl_retries
    /\ \A i \in 1..(Len(dl_gets) - 1) : dl_gets[i] \in RequestExceptions
    /\ \A i \in 1..Len(dl_sleeps) : dl_sleeps[i] = DownloadDelay
    /\ dlPc = "get" =>
          /\ Len(dl_gets) < dl_retries
          /\ \A i \in 1..Len(dl_gets) : dl_gets[i] \in RequestExceptions
          /\ Len(dl_sleeps) = Len(dl_gets)
    /\ dlPc = "returned" =>
          /\ Len(dl_sleeps) = IF dl_gets = <<>> THEN 0 ELSE Len(dl_gets) - 1
          /\ IF dl_gets # <<>> /\ dl_gets[Len(dl_gets)] = "ok"
             THEN dl_result = LabelPath /\ dl_file = "complete"
             ELSE /\ dl_result = "None"
                  /\ Len(dl_gets) = dl_retries
                  /\ \A i \in 1..Len(dl_gets) : dl_gets[i] \in RequestExceptions

\* three attempts allowed, all three failed
C33_Witness ==
    /\ dlPc = "returned"
    /\ dl_retries = 3
    /\ Len(dl_gets) = 3
    /\ dl_gets[1] = "Timeout"
    /\ dl_result = "None"
    /\ Len(dl_sleeps) = 2

(***************************************************************************)
(* Claims about successive invocations of the confirmations main, checked   *)
(* under SpecRuns.                                                          *)
(***************************************************************************)
\* the rows of table t are among the rows of table u
RowsAmong(t, u) == \A i \in 1..Len(t.rows) : \E j \in 1..Len(u.rows) : u.rows[j] = t.rows[i]

\* C34: when an invocation ingested confirmation files and its status update
\* did not complete, the next invocation attempts the status update for the
\* orders of those files
C34_NextRunRetriesStatusUpdate ==
    (run_no = 2 /\ runPc \in {"done", "raised"} /\ run_unsent # <<>>)
        => /\ run_posts > 0
           /\ Len(returned) = 2
           /\ ~returned[2].raised
           /\ RowsAmong(run_unsent[1], returned[2])

(***************************************************************************)
(* Claims about runs sharing an inbox, checked under SpecConcurrent.        *)
(***************************************************************************)
\* both runs have returned a table and the rows of a file are in both
InBothTables ==
    /\ \A p \in Runs : c_pc[p] = "done" /\ ~c_returned[p][1].raised
    /\ \E f \in SharedInbox :
          /\ f.name \in c_loaded[1] \cap c_loaded[2]
          /\ \A p \in Runs : \E j \in 1..Len(c_returned[p][1].rows) :
                c_returned[p][1].rows[j] = f.data.rows[1]

\* two interleaved runs loaded the same file before either moved it, and its
\* rows are in the merged tables of both
C35_BothRunsLoadSameFile == c_mode = "concurrent" /\ InBothTables

\* C35: concurrent runs are unsafe (there is an interleaving in which both
\* runs load the same inbox file before either moves it, and its rows are in
\* both merged tables: C35_BothRunsLoadSameFile), while with sequential runs
\* each inbox file is ingested by at most one run
C35_SequentialRunsIngestOnce ==
    c_mode = "sequential" => c_loaded[1] \cap c_loaded[2] = {}

(***************************************************************************)
(* The inbound file and the updates of one run of main.py, checked under    *)
(* SpecExchange.                                                            *)
(***************************************************************************)
\* C36: stock and price updates come only from an inbound file downloaded in
\* the same run: when the download ended without a completed transfer, no
\* stock batch and no price batch is sent, even with an earlier run's copy
\* of the file in the supplier directory
C36_UpdatesOnlyFromFreshFile ==
    (exchPc # "download" /\ pull_outcome # "downloaded") =>
        /\ ~(stocksPc = "done" /\ stock_offers # <<>>)
        /\ ~(pricesPc = "done" /\ price_offers # <<>>)

(***************************************************************************)
(* The local file of utils.download_from_ftp, checked under SpecDownloads.  *)
(***************************************************************************)
\* C37: when utils.download_from_ftp returns after every RETR attempt failed,
\* the local destination file is as it was before the call: an earlier run's
\* copy is neither truncated nor partly overwritten
C37_FailedTransferKeepsLocalFile ==
    (pullPc = "done" /\ pull_outcome = "transfer_failed") => supplier_file \in {"absent", "old"}

(***************************************************************************)
(* Claims about successive export runs, checked under SpecExportRuns.       *)
(***************************************************************************)
\* C38: every order file written by export_orders_to_dbf_files is uploaded
\* in the end: when the upload failed in the run that wrote the file, a later
\* run that finds the server reachable uploads it
C38_LaterRunUploads ==
    (export_run > 1 /\ exportPc = "done") =>
        \A k \in 1..Len(export_orders) :
            FileExists(dbf_dir, export_orders[k].id) => FileExists(ftp_orders, export_orders[k].id)

(***************************************************************************)
(* From the server to the merged table, checked under SpecRun.              *)
(***************************************************************************)
\* C39: every remote file the download deleted from the server has its rows
\* in the merged table the next process_confirmation_files call returns, a
\* file whose local name is that of a file in the processed archive included
C39_NoConfirmationLost ==
    (runPc \notin {"download", "ingest", "idle"} /\ Len(returned) = run_no) =>
        \A n \in deleted :
            /\ ~confirmations_df.raised
            /\ \E j \in 1..Len(confirmations_df.rows) : confirmations_df.rows[j] = Len(n)

====
